---- MODULE Spec2Model ----
(***************************************************************************)
(* A model of the blueprint plotting core of the Web repository:           *)
(*   - PlotMathEngine.parseBlueprint      (src/src/services/PlotMathEngine.ts)*)
(*   - PlotMathEngine.generateChartConfig (same file)                      *)
(*   - MarkdownViewer.renderDynamicCharts (src/src/components/MarkdownViewer.ts)*)
(*                                                                         *)
(* Representation.                                                         *)
(*   A JavaScript string is a sequence of symbols.  A symbol is one        *)
(*   character (" ", ":", "#", "{", "}", ",", a quote, a digit, an         *)
(*   operator character) or a word: a run of letters, digits and "_" that  *)
(*   starts with a letter and is never split by the code (the code only    *)
(*   splits at whitespace, ":", ",", "{", "}", quotes and "=").            *)
(*   A JavaScript number is an exact rational, NaN, +Infinity or -Infinity.*)
(*   Rounding and overflow of IEEE doubles and the sign of zero are not    *)
(*   modelled.  A JavaScript object is an insertion-ordered sequence of    *)
(*   <<key, value>> pairs.                                                 *)
(***************************************************************************)
EXTENDS Integers, Sequences, FiniteSets, TLC

(***************************************************************************)
(* JavaScript values                                                       *)
(***************************************************************************)

\* A finite number n/d (d > 0), not yet reduced.
RECURSIVE GCD(_, _)
GCD(a, b) == IF b = 0 THEN a ELSE GCD(b, a % b)

AbsInt(a) == IF a < 0 THEN -a ELSE a

Num(n, d) ==
    LET g == GCD(AbsInt(n), AbsInt(d))
        s == IF d < 0 THEN -1 ELSE 1
    IN [t |-> "num", n |-> (s * n) \div g, d |-> (s * d) \div g, s |-> <<>>]

IntNum(n) == [t |-> "num", n |-> n, d |-> 1, s |-> <<>>]
NaN == [t |-> "nan", n |-> 0, d |-> 1, s |-> <<>>]
PosInf == [t |-> "inf", n |-> 1, d |-> 1, s |-> <<>>]
NegInf == [t |-> "inf", n |-> -1, d |-> 1, s |-> <<>>]
Undefined == [t |-> "undef", n |-> 0, d |-> 1, s |-> <<>>]
Str(s) == [t |-> "str", n |-> 0, d |-> 1, s |-> s]
\* A math-library function object (Math.sin, ...), named by its key.
Fn(name) == [t |-> "fn", n |-> 0, d |-> 1, s |-> <<name>>]
\* A finite value the model does not compute (an irrational such as PI or
\* sqrt(2), or the string a "+" with a string operand builds).
Opaque(name) == [t |-> "opaque", n |-> 0, d |-> 1, s |-> <<name>>]

IsFin(v) == v.t = "num"
IsInf(v) == v.t = "inf"
Sign(v) == IF v.n > 0 THEN 1 ELSE IF v.n < 0 THEN -1 ELSE 0

IsNumeric(v) == v.t \in {"num", "nan", "inf"}

(***************************************************************************)
(* Strings: sequences of symbols                                           *)
(***************************************************************************)

Digits == <<"0", "1", "2", "3", "4", "5", "6", "7", "8", "9">>
IsDigit(c) == \E i \in 1..10 : Digits[i] = c
DigitVal(c) == (CHOOSE i \in 1..10 : Digits[i] = c) - 1
\* \s of a regular expression and the white space String.trim removes
\* (a line holds no line terminator: the text was split at them).
IsSpace(c) == c \in {" ", "\t", "\r", "\n"}

RECURSIVE TrimStart(_)
TrimStart(s) == IF s # <<>> /\ IsSpace(Head(s)) THEN TrimStart(Tail(s)) ELSE s

RECURSIVE TrimEnd(_)
TrimEnd(s) ==
    IF s # <<>> /\ IsSpace(s[Len(s)]) THEN TrimEnd(SubSeq(s, 1, Len(s) - 1)) ELSE s

\* String.prototype.trim
Trim(s) == TrimEnd(TrimStart(s))

\* String.prototype.includes(c) for a one-symbol c
Includes(s, c) == \E i \in 1..Len(s) : s[i] = c

\* String.prototype.indexOf(c), 1-based; 0 when c does not occur (JS: -1)
IndexOf(s, c) ==
    IF Includes(s, c) THEN CHOOSE i \in 1..Len(s) : s[i] = c /\ \A j \in 1..(i - 1) : s[j] # c
    ELSE 0

LastIndexOf(s, c) ==
    IF Includes(s, c) THEN CHOOSE i \in 1..Len(s) : s[i] = c /\ \A j \in (i + 1)..Len(s) : s[j] # c
    ELSE 0

\* String.prototype.split(c): the pieces between the occurrences of c
RECURSIVE Split(_, _)
Split(s, c) ==
    LET i == IndexOf(s, c)
    IN IF i = 0 THEN <<s>>
       ELSE <<SubSeq(s, 1, i - 1)>> \o Split(SubSeq(s, i + 1, Len(s)), c)

\* String.prototype.replace(/['"]/g, '')
RECURSIVE StripQuotes(_)
StripQuotes(s) ==
    IF s = <<>> THEN <<>>
    ELSE IF Head(s) \in {"'", "\""} THEN StripQuotes(Tail(s))
    ELSE <<Head(s)>> \o StripQuotes(Tail(s))

\* String.prototype.toLowerCase on the words the model's texts use
LowerSym(c) ==
    CASE c = "Params" -> "params"
      [] c = "PARAMS" -> "params"
      [] c = "Parameters" -> "parameters"
      [] c = "Vars" -> "vars"
      [] c = "Variables" -> "variables"
      [] c = "Axis" -> "axis"
      [] c = "Title" -> "title"
      [] c = "Equation" -> "equation"
      [] c = "Steps" -> "steps"
      [] c = "STEPS" -> "steps"
      [] c = "Color" -> "color"
      [] c = "X" -> "x"
      [] c = "Y" -> "y"
      [] c = "R" -> "r"
      [] c = "Z" -> "z"
      [] OTHER -> c

ToLowerCase(s) == [i \in 1..Len(s) |-> LowerSym(s[i])]

\* The value of a run of decimal digits
RECURSIVE DigitsValue(_)
DigitsValue(s) ==
    IF s = <<>> THEN 0 ELSE 10 * DigitsValue(SubSeq(s, 1, Len(s) - 1)) + DigitVal(s[Len(s)])

\* The longest prefix of s made of digits
RECURSIVE DigitPrefix(_)
DigitPrefix(s) ==
    IF s # <<>> /\ IsDigit(Head(s)) THEN <<Head(s)>> \o DigitPrefix(Tail(s)) ELSE <<>>

RECURSIVE Pow10(_)
Pow10(k) == IF k = 0 THEN 1 ELSE 10 * Pow10(k - 1)

\* Global parseInt(string) in radix 10: leading white space, a sign, the
\* longest run of digits; NaN when there is no digit. (A "0x" prefix, which
\* parseInt reads as hexadecimal, does not occur in the model's texts.)
parseInt(s) ==
    LET t == TrimStart(s)
        neg == t # <<>> /\ Head(t) = "-"
        u == IF t # <<>> /\ Head(t) \in {"-", "+"} THEN Tail(t) ELSE t
        ds == DigitPrefix(u)
    IN IF ds = <<>> THEN NaN
       ELSE IntNum((IF neg THEN -1 ELSE 1) * DigitsValue(ds))

\* Number(string) (the StringNumericLiteral grammar): white space is trimmed,
\* "" is 0, an optional sign, then Infinity or decimal digits with an
\* optional fraction; anything else is NaN. (Exponents and 0x/0o/0b
\* literals do not occur in the model's texts.)
StringToNumber(s) ==
    LET t == Trim(s)
        neg == t # <<>> /\ Head(t) = "-"
        u == IF t # <<>> /\ Head(t) \in {"-", "+"} THEN Tail(t) ELSE t
        ip == DigitPrefix(u)
        r == SubSeq(u, Len(ip) + 1, Len(u))
        fp == IF r # <<>> /\ Head(r) = "." THEN DigitPrefix(Tail(r)) ELSE <<>>
        used == Len(ip) + (IF r # <<>> /\ Head(r) = "." THEN 1 + Len(fp) ELSE 0)
        sg == IF neg THEN -1 ELSE 1
    IN IF t = <<>> THEN IntNum(0)
       ELSE IF u = <<"Infinity">> THEN (IF neg THEN NegInf ELSE PosInf)
       ELSE IF Len(ip) + Len(fp) = 0 \/ used # Len(u) THEN NaN
       ELSE Num(sg * (DigitsValue(ip) * Pow10(Len(fp)) + DigitsValue(fp)), Pow10(Len(fp)))

(***************************************************************************)
(* Number arithmetic (ECMAScript Number::add, multiply, divide, ...)       *)
(***************************************************************************)

\* ToNumber
ToNumber(v) ==
    CASE v.t = "undef" -> NaN
      [] v.t = "str" -> StringToNumber(v.s)
      [] v.t = "fn" -> NaN
      [] OTHER -> v

Neg(a) ==
    CASE a.t = "num" -> Num(-a.n, a.d)
      [] a.t = "inf" -> [a EXCEPT !.n = -a.n]
      [] OTHER -> a

NumAdd(a, b) ==
    CASE a.t = "nan" \/ b.t = "nan" -> NaN
      [] a.t = "opaque" \/ b.t = "opaque" -> Opaque("number")
      [] a.t = "inf" /\ b.t = "inf" -> IF a.n = b.n THEN a ELSE NaN
      [] a.t = "inf" -> a
      [] b.t = "inf" -> b
      [] OTHER -> Num(a.n * b.d + b.n * a.d, a.d * b.d)

NumMul(a, b) ==
    CASE a.t = "nan" \/ b.t = "nan" -> NaN
      [] a.t = "opaque" \/ b.t = "opaque" -> Opaque("number")
      [] a.t = "inf" \/ b.t = "inf" ->
            IF Sign(a) * Sign(b) = 0 THEN NaN
            ELSE IF Sign(a) * Sign(b) > 0 THEN PosInf ELSE NegInf
      [] OTHER -> Num(a.n * b.n, a.d * b.d)

\* Division by zero gives an infinity (the zero is +0), 0/0 gives NaN.
NumDiv(a, b) ==
    CASE a.t = "nan" \/ b.t = "nan" -> NaN
      [] a.t = "opaque" \/ b.t = "opaque" -> Opaque("number")
      [] a.t = "inf" /\ b.t = "inf" -> NaN
      [] a.t = "inf" -> IF Sign(a) * Sign(b) < 0 THEN NegInf ELSE PosInf
      [] b.t = "inf" -> IntNum(0)
      [] b.n = 0 -> IF a.n = 0 THEN NaN ELSE IF a.n > 0 THEN PosInf ELSE NegInf
      [] OTHER -> Num(a.n * b.d, a.d * b.n)

RECURSIVE IntPow(_, _)
IntPow(b, e) == IF e = 0 THEN 1 ELSE b * IntPow(b, e - 1)

\* Number::exponentiate for an integer exponent; other exponents give a
\* value the model does not compute.
NumPow(a, b) ==
    CASE b.t = "nan" -> NaN
      [] b.t = "num" /\ b.n = 0 -> IntNum(1)
      [] a.t = "nan" -> NaN
      [] a.t = "opaque" \/ b.t = "opaque" -> Opaque("number")
      [] b.t = "num" /\ b.d = 1 /\ a.t = "num" ->
            IF b.n > 0 THEN Num(IntPow(a.n, b.n), IntPow(a.d, b.n))
            ELSE IF a.n = 0 THEN PosInf
            ELSE Num(IntPow(a.d, -b.n), IntPow(a.n, -b.n))
      [] b.t = "num" /\ b.d = 1 /\ a.t = "inf" ->
            IF b.n < 0 THEN IntNum(0)
            ELSE IF a.n < 0 /\ b.n % 2 = 1 THEN NegInf ELSE PosInf
      [] OTHER -> Opaque("number")

\* a < b for numbers; FALSE when either is NaN
Less(a, b) ==
    CASE a.t = "nan" \/ b.t = "nan" -> FALSE
      [] a.t = "inf" /\ b.t = "inf" -> a.n < b.n
      [] a.t = "inf" -> a.n < 0
      [] b.t = "inf" -> b.n > 0
      [] OTHER -> a.n * b.d < b.n * a.d

LessEq(a, b) == Less(a, b) \/ (a.t # "nan" /\ a = b)

\* Global isNaN(v) (its argument is converted by ToNumber)
isNaN(v) == ToNumber(v).t = "nan"

\* Math.abs
MathAbs(a) == IF a.t \in {"num", "inf"} /\ a.n < 0 THEN Neg(a) ELSE a

(***************************************************************************)
(* JavaScript objects: insertion-ordered <<key, value>> pairs              *)
(* (keys that are array indices, which an object enumerates first, are not *)
(* identifiers and do not occur as names in the model's texts)             *)
(***************************************************************************)

EmptyObj == <<>>

HasKey(obj, k) == \E i \in 1..Len(obj) : obj[i][1] = k

\* obj[k]; undefined when the object has no such key
ObjGet(obj, k) ==
    IF HasKey(obj, k) THEN obj[CHOOSE i \in 1..Len(obj) : obj[i][1] = k][2] ELSE Undefined

\* obj[k] = v: a new key is appended, an existing key keeps its place
ObjSet(obj, k, v) ==
    IF HasKey(obj, k) THEN [i \in 1..Len(obj) |-> IF obj[i][1] = k THEN <<k, v>> ELSE obj[i]]
    ELSE Append(obj, <<k, v>>)

\* Object.keys(obj), Object.values(obj)
ObjKeys(obj) == [i \in 1..Len(obj) |-> obj[i][1]]
ObjValues(obj) == [i \in 1..Len(obj) |-> obj[i][2]]

(***************************************************************************)
(* PlotMathEngine.parseBlueprint                                           *)
(***************************************************************************)

DefaultSteps == 500
DefaultColor == <<"rgb", "(", "2", "5", "5", ",", " ", "1", "4", "9", ",", " ", "0", ")">>

\* The config object parseBlueprint starts from
DefaultConfig ==
    [title |-> <<>>, equation |-> <<"0">>, steps |-> DefaultSteps, color |-> DefaultColor,
     parameters |-> EmptyObj, vars |-> EmptyObj, axis |-> [x |-> EmptyObj, y |-> EmptyObj]]

\* raw.split(/\r?\n/)
RECURSIVE SplitLines(_)
SplitLines(raw) ==
    LET i == IndexOf(raw, "\n")
        cut == IF i > 1 /\ raw[i - 1] = "\r" THEN i - 2 ELSE i - 1
    IN IF i = 0 THEN <<raw>>
       ELSE <<SubSeq(raw, 1, cut)>> \o SplitLines(SubSeq(raw, i + 1, Len(raw)))

\* parseInt(val) || 500
ParseSteps(val) ==
    LET v == parseInt(val)
    IN IF v.t = "nan" \/ v.n = 0 THEN DefaultSteps ELSE v.n

\* val.match(/\{(.*)\}/): the text between the first "{" and the last "}"
\* after it; no match when no "}" follows the first "{"
ObjMatches(val) == IndexOf(val, "{") # 0 /\ LastIndexOf(val, "}") > IndexOf(val, "{")
ObjMatchGroup(val) == SubSeq(val, IndexOf(val, "{") + 1, LastIndexOf(val, "}") - 1)

\* One "key: value" piece of an object literal added to props
ParseProp(props, p) ==
    LET parts == Split(p, ":")
        propKey == Trim(parts[1])
        propVal == IF Len(parts) >= 2 THEN Trim(parts[2]) ELSE <<>>
        cleanStr == Trim(StripQuotes(propVal))
        cleanVal == IF ~isNaN(Str(cleanStr)) THEN StringToNumber(cleanStr) ELSE Str(cleanStr)
    IN IF propKey # <<>> /\ propVal # <<>> THEN ObjSet(props, propKey, cleanVal) ELSE props

RECURSIVE ParsePropsFrom(_, _)
ParsePropsFrom(props, pieces) ==
    IF pieces = <<>> THEN props
    ELSE ParsePropsFrom(ParseProp(props, Head(pieces)), Tail(pieces))

\* objMatch[1].split(',').forEach(...)
ParseProps(group) == ParsePropsFrom(EmptyObj, Split(group, ","))

\* A parser that takes the value of an unknown root key for the title: it
\* differs from parseBlueprint on a text whose keys are not recognized
ParseHeaderLineLoose(st, line) ==
    LET colonIndex == IndexOf(line, ":")
        key == ToLowerCase(Trim(SubSeq(line, 1, colonIndex - 1)))
        val == Trim(SubSeq(line, colonIndex + 1, Len(line)))
    IN IF key = <<"steps">>
       THEN [currentSection |-> "", config |-> [st.config EXCEPT !.steps = ParseSteps(val)]]
       ELSE [currentSection |-> "", config |-> [st.config EXCEPT !.title = val]]

\* A parser whose root keys leave the section open: it differs from
\* parseBlueprint on a nested line that follows a root key
ParseHeaderLineSticky(st, line) ==
    LET colonIndex == IndexOf(line, ":")
        key == ToLowerCase(Trim(SubSeq(line, 1, colonIndex - 1)))
        val == Trim(SubSeq(line, colonIndex + 1, Len(line)))
        c == st.config
    IN IF key = <<"params">> \/ key = <<"parameters">> THEN [st EXCEPT !.currentSection = "params"]
       ELSE IF key = <<"vars">> \/ key = <<"variables">> THEN [st EXCEPT !.currentSection = "vars"]
       ELSE IF key = <<"axis">> THEN [st EXCEPT !.currentSection = "axis"]
       ELSE [currentSection |-> st.currentSection,
             config |->
               IF key = <<"title">> THEN [c EXCEPT !.title = val]
               ELSE IF key = <<"equation">> THEN [c EXCEPT !.equation = val]
               ELSE IF key = <<"steps">> THEN [c EXCEPT !.steps = ParseSteps(val)]
               ELSE IF key = <<"color">> THEN [c EXCEPT !.color = val]
               ELSE c]

\* An unindented line with a colon: a section header or a root key
ParseHeaderLine(st, line) ==
    LET colonIndex == IndexOf(line, ":")
        key == ToLowerCase(Trim(SubSeq(line, 1, colonIndex - 1)))
        val == Trim(SubSeq(line, colonIndex + 1, Len(line)))
        c == st.config
    IN IF key = <<"params">> \/ key = <<"parameters">> THEN [st EXCEPT !.currentSection = "params"]
       ELSE IF key = <<"vars">> \/ key = <<"variables">> THEN [st EXCEPT !.currentSection = "vars"]
       ELSE IF key = <<"axis">> THEN [st EXCEPT !.currentSection = "axis"]
       ELSE [currentSection |-> "",
             config |->
               IF key = <<"title">> THEN [c EXCEPT !.title = val]
               ELSE IF key = <<"equation">> THEN [c EXCEPT !.equation = val]
               ELSE IF key = <<"steps">> THEN [c EXCEPT !.steps = ParseSteps(val)]
               ELSE IF key = <<"color">> THEN [c EXCEPT !.color = val]
               ELSE c]

\* A parser that stores a nested line without object literal as a variable
\* in every section: it differs from parseBlueprint on such a line under
\* params or axis
ParseNestedLineLenient(st, line) ==
    LET colonIndex == IndexOf(line, ":")
        key == Trim(SubSeq(line, 1, colonIndex - 1))
        val == Trim(SubSeq(line, colonIndex + 1, Len(line)))
        c == st.config
        props == ParseProps(ObjMatchGroup(val))
    IN IF ObjMatches(val) THEN
            IF st.currentSection = "params"
            THEN [st EXCEPT !.config = [c EXCEPT !.parameters = ObjSet(c.parameters, key, props)]]
            ELSE IF st.currentSection = "axis" /\ key = <<"x">>
            THEN [st EXCEPT !.config = [c EXCEPT !.axis = [c.axis EXCEPT !.x = props]]]
            ELSE IF st.currentSection = "axis" /\ key = <<"y">>
            THEN [st EXCEPT !.config = [c EXCEPT !.axis = [c.axis EXCEPT !.y = props]]]
            ELSE st
       ELSE [st EXCEPT !.config = [c EXCEPT !.vars = ObjSet(c.vars, key, val)]]

\* An indented line with a colon: a key nested under params, vars or axis
ParseNestedLine(st, line) ==
    LET colonIndex == IndexOf(line, ":")
        key == Trim(SubSeq(line, 1, colonIndex - 1))
        val == Trim(SubSeq(line, colonIndex + 1, Len(line)))
        c == st.config
        props == ParseProps(ObjMatchGroup(val))
    IN IF ObjMatches(val) THEN
            IF st.currentSection = "params"
            THEN [st EXCEPT !.config = [c EXCEPT !.parameters = ObjSet(c.parameters, key, props)]]
            ELSE IF st.currentSection = "axis" /\ key = <<"x">>
            THEN [st EXCEPT !.config = [c EXCEPT !.axis = [c.axis EXCEPT !.x = props]]]
            ELSE IF st.currentSection = "axis" /\ key = <<"y">>
            THEN [st EXCEPT !.config = [c EXCEPT !.axis = [c.axis EXCEPT !.y = props]]]
            ELSE st
       ELSE IF st.currentSection = "vars"
       THEN [st EXCEPT !.config = [c EXCEPT !.vars = ObjSet(c.vars, key, val)]]
       ELSE st

\* The body of lines.forEach: one line of the text
ParseLine(st, line) ==
    LET trimmed == Trim(line)
        isSectionHeader == line # <<>> /\ ~IsSpace(Head(line))
    IN IF trimmed = <<>> \/ Head(trimmed) = "#" THEN st
       ELSE IF Includes(trimmed, ":") /\ isSectionHeader THEN ParseHeaderLine(st, line)
       ELSE IF Includes(trimmed, ":") THEN ParseNestedLine(st, line)
       ELSE st

RECURSIVE ParseLines(_, _)
ParseLines(st, lines) ==
    IF lines = <<>> THEN st ELSE ParseLines(ParseLine(st, Head(lines)), Tail(lines))

\* parseBlueprint(raw): the config after every line (config.init is the
\* engine bound to this config: see Render and SliderInput)
parseBlueprint(raw) ==
    ParseLines([config |-> DefaultConfig, currentSection |-> ""], SplitLines(raw)).config

(***************************************************************************)
(* The arithmetic expressions `new Function` compiles.  The grammar is the *)
(* part of ECMAScript the blueprints use: number literals, identifiers,    *)
(* + - * / **, unary - and +, parentheses and calls.                       *)
(***************************************************************************)

Punctuators == {"+", "-", "*", "/", "(", ")", ","}
NotWord == Punctuators \cup {".", ":", "{", "}", "=", "#", "'", "\"", "\n", "\r", ";"}
\* A word is an IdentifierName (no reserved word occurs in the model's texts)
IsWord(c) == c \notin NotWord /\ ~IsDigit(c) /\ ~IsSpace(c)

TokNum(v) == [k |-> "num", s |-> "", v |-> v]
TokId(name) == [k |-> "id", s |-> name, v |-> NaN]
TokOp(name) == [k |-> "op", s |-> name, v |-> NaN]
TokBad == [k |-> "bad", s |-> "", v |-> NaN]
TokEof == [k |-> "eof", s |-> "", v |-> NaN]

\* The tokens of a source text: white space separates, a run of digits with
\* an optional fraction is a numeric literal, "**" is one punctuator. A
\* numeric literal directly followed by an identifier, and any symbol outside
\* the grammar, is a token no expression contains. The one member access of
\* the model's texts, `.toFixed(`, is a punctuator between the receiver and
\* the parenthesised digits.
RECURSIVE Tokenize(_)
Tokenize(s) ==
    IF s = <<>> THEN <<>>
    ELSE LET c == Head(s)
             ip == DigitPrefix(s)
             r == SubSeq(s, Len(ip) + 1, Len(s))
             fp == IF r # <<>> /\ Head(r) = "." THEN DigitPrefix(Tail(r)) ELSE <<>>
             used == Len(ip) + (IF r # <<>> /\ Head(r) = "." THEN 1 + Len(fp) ELSE 0)
             after == SubSeq(s, used + 1, Len(s))
         IN IF IsSpace(c) THEN Tokenize(Tail(s))
            ELSE IF IsDigit(c) THEN
                 IF after # <<>> /\ IsWord(Head(after)) THEN <<TokBad>>
                 ELSE <<TokNum(Num(DigitsValue(ip) * Pow10(Len(fp)) + DigitsValue(fp),
                                   Pow10(Len(fp))))>> \o Tokenize(after)
            ELSE IF c = "*" /\ Len(s) >= 2 /\ s[2] = "*"
                 THEN <<TokOp("**")>> \o Tokenize(SubSeq(s, 3, Len(s)))
            ELSE IF c = "." /\ Len(s) >= 3 /\ s[2] = "toFixed" /\ s[3] = "("
                 THEN <<TokOp(".toFixed")>> \o Tokenize(SubSeq(s, 3, Len(s)))
            ELSE IF c \in Punctuators THEN <<TokOp(c)>> \o Tokenize(Tail(s))
            ELSE IF IsWord(c) THEN <<TokId(c)>> \o Tokenize(Tail(s))
            ELSE <<TokBad>>

Tok(toks, p) == IF p <= Len(toks) THEN toks[p] ELSE TokEof
IsOp(t, name) == t.k = "op" /\ t.s = name

\* The expression is compiled to postfix code: <<"num", v>>, <<"id", name>>,
\* <<"unary", op>>, <<"bin", op>>, <<"call", argc>> (callee, then the
\* arguments, left to right). A parse result is the code, or not ok: a
\* SyntaxError.
Parsed(code) == [ok |-> TRUE, e |-> code]
ParseFail == [ok |-> FALSE, e |-> <<>>]

\* Operator precedence: additive < multiplicative < unary < exponentiation
\* < member call
Prec(op) ==
    CASE op \in {"+", "-"} -> 1 [] op \in {"*", "/"} -> 2 [] op = "**" -> 4
      [] op = ".toFixed" -> 5

\* A pending operator, or an open parenthesis (a group, or the arguments of
\* a call with n arguments read so far)
Pending(k, op, n) == [k |-> k, s |-> op, n |-> n]
PendingPrec(o) == IF o.k = "unary" THEN 3 ELSE Prec(o.s)
IsOperator(o) == o.k \in {"bin", "unary"}

\* Move the pending operators of precedence >= minPrec above the innermost
\* open parenthesis to the code
RECURSIVE PopOps(_, _, _)
PopOps(stack, out, minPrec) ==
    IF stack # <<>> /\ IsOperator(stack[Len(stack)]) /\ PendingPrec(stack[Len(stack)]) >= minPrec
    THEN PopOps(SubSeq(stack, 1, Len(stack) - 1),
                Append(out, <<stack[Len(stack)].k, stack[Len(stack)].s>>), minPrec)
    ELSE [stack |-> stack, out |-> out]

\* The operator-precedence parse of AdditiveExpression from token p on.
\* operand: an operand (literal, identifier, parenthesis, unary operator)
\* is expected next; otherwise an operator, a call or a closing parenthesis.
\*   - "**" is right-associative and its base may not be a unary expression
\*   - "(" after an operand is a call of it, "," separates its arguments
\*   - a member call is applied as soon as its parenthesis closes
RECURSIVE Compile(_, _, _, _, _)
Compile(toks, p, out, stack, operand) ==
    LET t == Tok(toks, p)
        top == stack[Len(stack)]
        rest == SubSeq(stack, 1, Len(stack) - 1)
        all == PopOps(stack, out, 0)
        open == all.stack[Len(all.stack)]
        below == SubSeq(all.stack, 1, Len(all.stack) - 1)
        some == PopOps(stack, out, Prec(t.s))
    IN IF t.k = "bad" THEN ParseFail
       ELSE IF t.k = "eof" THEN
            IF operand \/ all.stack # <<>> THEN ParseFail ELSE Parsed(all.out)
       ELSE IF operand THEN
            IF t.k = "num" THEN Compile(toks, p + 1, Append(out, <<"num", t.v>>), stack, FALSE)
            ELSE IF t.k = "id" THEN Compile(toks, p + 1, Append(out, <<"id", t.s>>), stack, FALSE)
            ELSE IF IsOp(t, "(")
                 THEN Compile(toks, p + 1, out, Append(stack, Pending("group", "(", 0)), TRUE)
            ELSE IF IsOp(t, "-") \/ IsOp(t, "+")
                 THEN Compile(toks, p + 1, out, Append(stack, Pending("unary", t.s, 0)), TRUE)
            ELSE IF IsOp(t, ")") /\ stack # <<>> /\ top.k = "call" /\ top.n = 0
                 THEN Compile(toks, p + 1, Append(out, <<"call", 0>>), rest, FALSE)
            ELSE ParseFail
       ELSE IF t.k # "op" THEN ParseFail
       ELSE IF IsOp(t, "(")
            THEN Compile(toks, p + 1, out, Append(stack, Pending("call", "(", 0)), TRUE)
       ELSE IF IsOp(t, ")") THEN
            IF all.stack = <<>> THEN ParseFail
            ELSE IF open.k = "call"
                 THEN Compile(toks, p + 1, Append(all.out, <<"call", open.n + 1>>), below, FALSE)
            ELSE Compile(toks, p + 1, PopOps(below, all.out, 5).out,
                         PopOps(below, all.out, 5).stack, FALSE)
       ELSE IF IsOp(t, ",") THEN
            IF all.stack = <<>> \/ open.k # "call" THEN ParseFail
            ELSE Compile(toks, p + 1, all.out,
                         Append(below, Pending("call", "(", open.n + 1)), TRUE)
       ELSE IF IsOp(t, "**") THEN
            IF stack # <<>> /\ top.k = "unary" THEN ParseFail
            ELSE Compile(toks, p + 1, out, Append(stack, Pending("bin", "**", 0)), TRUE)
       ELSE Compile(toks, p + 1, some.out, Append(some.stack, Pending("bin", t.s, 0)), TRUE)

\* A whole source text as one expression; not ok is a SyntaxError
ParseExpression(src) == Compile(Tokenize(src), 1, <<>>, <<>>, TRUE)

(***************************************************************************)
(* The math sandbox                                                        *)
(***************************************************************************)

\* Object.keys(math), in the order of the object literal
mathKeys ==
    <<"sin", "cos", "tan", "exp", "sqrt", "pow", "abs", "PI", "E",
      "log", "log10", "floor", "ceil", "round", "min", "max">>

\* Object.values(math): PI and E are numbers the model does not compute
mathValues ==
    [i \in 1..Len(mathKeys) |->
        IF mathKeys[i] \in {"PI", "E"} THEN Opaque(mathKeys[i]) ELSE Fn(mathKeys[i])]

\* The integer square root
ISqrt(n) == CHOOSE r \in 0..n : r * r <= n /\ (r + 1) * (r + 1) > n

Arg(args, i) == IF i <= Len(args) THEN ToNumber(args[i]) ELSE NaN

MathSqrt(a) ==
    CASE a.t = "nan" -> NaN
      [] a.t = "inf" -> IF a.n > 0 THEN PosInf ELSE NaN
      [] a.t = "num" /\ a.n < 0 -> NaN
      [] a.t = "num" /\ ISqrt(a.n) * ISqrt(a.n) = a.n /\ ISqrt(a.d) * ISqrt(a.d) = a.d ->
            Num(ISqrt(a.n), ISqrt(a.d))
      [] OTHER -> Opaque("sqrt")

MathFloor(a) == IF a.t = "num" THEN IntNum(a.n \div a.d) ELSE a
MathCeil(a) == IF a.t = "num" THEN IntNum(-((-a.n) \div a.d)) ELSE a
MathRound(a) == IF a.t = "num" THEN IntNum((2 * a.n + a.d) \div (2 * a.d)) ELSE a

RECURSIVE MathMin(_)
MathMin(args) ==
    IF args = <<>> THEN PosInf
    ELSE LET a == ToNumber(Head(args))
             m == MathMin(Tail(args))
         IN IF a.t = "nan" \/ m.t = "nan" THEN NaN
            ELSE IF a.t = "opaque" \/ m.t = "opaque" THEN Opaque("number")
            ELSE IF Less(m, a) THEN m ELSE a

RECURSIVE MathMax(_)
MathMax(args) ==
    IF args = <<>> THEN NegInf
    ELSE LET a == ToNumber(Head(args))
             m == MathMax(Tail(args))
         IN IF a.t = "nan" \/ m.t = "nan" THEN NaN
            ELSE IF a.t = "opaque" \/ m.t = "opaque" THEN Opaque("number")
            ELSE IF Less(a, m) THEN m ELSE a

\* The transcendental functions at the arguments where the result is exact
MathTranscendental(name, a) ==
    CASE a.t = "nan" -> NaN
      [] name \in {"sin", "tan"} /\ a = IntNum(0) -> IntNum(0)
      [] name \in {"sin", "cos", "tan"} /\ a.t = "inf" -> NaN
      [] name = "cos" /\ a = IntNum(0) -> IntNum(1)
      [] name = "exp" /\ a = IntNum(0) -> IntNum(1)
      [] name = "exp" /\ a.t = "inf" -> IF a.n > 0 THEN PosInf ELSE IntNum(0)
      [] name \in {"log", "log10"} /\ a = IntNum(1) -> IntNum(0)
      [] name \in {"log", "log10"} /\ a = IntNum(0) -> NegInf
      [] name \in {"log", "log10"} /\ a.t \in {"num", "inf"} /\ a.n < 0 -> NaN
      [] name \in {"log", "log10"} /\ a.t = "inf" -> PosInf
      [] OTHER -> Opaque(name)

\* A call of the math function called name
MathCall(name, args) ==
    CASE name = "abs" -> MathAbs(Arg(args, 1))
      [] name = "sqrt" -> MathSqrt(Arg(args, 1))
      [] name = "pow" -> NumPow(Arg(args, 1), Arg(args, 2))
      [] name = "floor" -> MathFloor(Arg(args, 1))
      [] name = "ceil" -> MathCeil(Arg(args, 1))
      [] name = "round" -> MathRound(Arg(args, 1))
      [] name = "min" -> MathMin(args)
      [] name = "max" -> MathMax(args)
      [] OTHER -> MathTranscendental(name, Arg(args, 1))

(***************************************************************************)
(* Evaluation of an expression in a scope                                  *)
(***************************************************************************)

Value(v) == [thrown |-> FALSE, v |-> v]
\* A ReferenceError or TypeError
Throw == [thrown |-> TRUE, v |-> Undefined]

\* The value bound to the first formal parameter called name: with it a
\* slider parameter hides the math-library entry of the same name
FirstBinding(names, values, name) ==
    values[CHOOSE i \in 1..Len(names) :
              names[i] = name /\ \A j \in 1..(i - 1) : names[j] # name]

\* The value bound to the last formal parameter called name
LastBinding(names, values, name) ==
    values[CHOOSE i \in 1..Len(names) :
              names[i] = name /\ \A j \in (i + 1)..Len(names) : names[j] # name]

\* A function whose declarations are hoisted like `var`: a name read before
\* its initialisation is undefined instead of a ReferenceError
ResolveHoisted(scope, name) ==
    IF name \in scope.declared THEN
        Value(IF HasKey(scope.consts, name) THEN ObjGet(scope.consts, name) ELSE Undefined)
    ELSE IF \E i \in 1..Len(scope.names) : scope.names[i] = name
         THEN Value(LastBinding(scope.names, scope.values, name))
    ELSE Throw

\* An identifier: a const of the body (a ReferenceError before its
\* initialisation), else a formal parameter (the last of that name), else an
\* unresolvable reference (no global name occurs in the model's texts).
Resolve(scope, name) ==
    IF name \in scope.declared THEN
        IF HasKey(scope.consts, name) THEN Value(ObjGet(scope.consts, name)) ELSE Throw
    ELSE IF \E i \in 1..Len(scope.names) : scope.names[i] = name
         THEN Value(LastBinding(scope.names, scope.values, name))
    ELSE Throw

\* a + b: a string or function operand makes a string, which the model does
\* not compute
JsAdd(a, b) ==
    IF a.t \in {"str", "fn"} \/ b.t \in {"str", "fn"} THEN Opaque("string")
    ELSE NumAdd(ToNumber(a), ToNumber(b))

\* receiver.toFixed(digits) throws: a TypeError when the receiver is
\* undefined or has no such method (a string, a function), a RangeError when
\* the digits, truncated, are not within 0..100 (NaN counts as 0)
ToFixedThrows(a, b) ==
    \/ a.t \in {"undef", "str", "fn"}
    \/ a.t = "opaque" /\ a.s = <<"string">>
    \/ ToNumber(b).t = "inf"
    \/ ToNumber(b).t = "num" /\ (ToNumber(b).n <= -ToNumber(b).d
                                  \/ ToNumber(b).n >= 101 * ToNumber(b).d)

BinaryOp(op, a, b) ==
    CASE op = ".toFixed" -> Opaque("string")
      [] op = "+" -> JsAdd(a, b)
      [] op = "-" -> NumAdd(ToNumber(a), Neg(ToNumber(b)))
      [] op = "*" -> NumMul(ToNumber(a), ToNumber(b))
      [] op = "/" -> NumDiv(ToNumber(a), ToNumber(b))
      [] op = "**" -> NumPow(ToNumber(a), ToNumber(b))

\* The postfix code run on a value stack, from item i on: operands are
\* evaluated left to right, a call applies the callee below its arguments
RECURSIVE Run(_, _, _, _)
Run(code, i, st, scope) ==
    LET c == code[i]
        n == Len(st)
        r == Resolve(scope, c[2])
        callee == st[n - c[2]]
    IN IF i > Len(code) THEN Value(IF st = <<>> THEN Undefined ELSE st[n])
       ELSE IF c[1] = "num" THEN Run(code, i + 1, Append(st, c[2]), scope)
       ELSE IF c[1] = "id" THEN
            IF r.thrown THEN Throw ELSE Run(code, i + 1, Append(st, r.v), scope)
       ELSE IF c[1] = "unary" THEN
            Run(code, i + 1,
                Append(SubSeq(st, 1, n - 1),
                       IF c[2] = "-" THEN Neg(ToNumber(st[n])) ELSE ToNumber(st[n])),
                scope)
       ELSE IF c[1] = "bin" /\ c[2] = ".toFixed" /\ ToFixedThrows(st[n - 1], st[n]) THEN Throw
       ELSE IF c[1] = "bin" THEN
            Run(code, i + 1,
                Append(SubSeq(st, 1, n - 2), BinaryOp(c[2], st[n - 1], st[n])), scope)
       ELSE IF callee.t # "fn" THEN Throw
       ELSE Run(code, i + 1,
                Append(SubSeq(st, 1, n - c[2] - 1),
                       MathCall(callee.s[1], SubSeq(st, n - c[2] + 1, n))),
                scope)

\* The value of compiled expression e in scope, or a thrown ReferenceError
\* or TypeError
Eval(e, scope) == Run(e, 1, <<>>, scope)

(***************************************************************************)
(* new Function(...formals, body) and its call                             *)
(***************************************************************************)

\* A property key used as a formal parameter or const name is an
\* identifier when it is one word
IsIdentifier(key) == Len(key) = 1 /\ IsWord(key[1])

RECURSIVE Concat(_)
Concat(ss) == IF ss = <<>> THEN <<>> ELSE Head(ss) \o Concat(Tail(ss))

\* The declarations written last to first: it differs from varLogic when a
\* variable refers to an earlier one
varLogicReversed(vars) ==
    Concat([i \in 1..Len(vars) |->
              <<"const", " ">> \o vars[Len(vars) + 1 - i][1] \o <<" ", "=", " ">>
              \o vars[Len(vars) + 1 - i][2] \o <<";", " ">>])

\* let varLogic = ''; for (const vKey in blueprint.vars)
\*     varLogic += `const ${vKey} = ${blueprint.vars[vKey]}; `
varLogic(vars) ==
    Concat([i \in 1..Len(vars) |->
              <<"const", " ">> \o vars[i][1] \o <<" ", "=", " ">> \o vars[i][2] \o <<";", " ">>])

\* The text of the expression of a trimmed statement: after `return`, or
\* after `const <name> =`
StatementExpr(s1) ==
    LET s2 == TrimStart(Tail(s1))
        s3 == TrimStart(Tail(s2))
    IN IF s1 = <<>> THEN <<>>
       ELSE IF Head(s1) = "return" THEN Tail(s1)
       ELSE IF Tail(s1) # <<>> /\ s2 # <<>> /\ s3 # <<>> THEN Tail(s3)
       ELSE <<>>

Statement(ok, kind, name, e) == [ok |-> ok, kind |-> kind, name |-> name, e |-> e]

\* The statement a trimmed text is, r its parsed expression: empty,
\* `return`, `return <expression>` or `const <identifier> = <expression>`.
\* (Other statements do not occur in the bodies the engine builds from the
\* texts of the model.)
StatementOf(s1, r) ==
    LET s2 == TrimStart(Tail(s1))
        s3 == TrimStart(Tail(s2))
    IN IF s1 = <<>> THEN Statement(TRUE, "empty", "", <<>>)
       ELSE IF Head(s1) = "return"
            THEN IF Trim(Tail(s1)) = <<>> THEN Statement(TRUE, "return", "", <<>>)
                 ELSE Statement(r.ok, "return", "", r.e)
       ELSE IF Head(s1) = "const" /\ Len(s1) >= 2 /\ IsSpace(s1[2])
               /\ s2 # <<>> /\ IsWord(Head(s2)) /\ s3 # <<>> /\ Head(s3) = "=" /\ r.ok
            THEN Statement(TRUE, "const", Head(s2), r.e)
       ELSE Statement(FALSE, "empty", "", <<>>)

ParseStatement(stmt) == StatementOf(Trim(stmt), ParseExpression(StatementExpr(Trim(stmt))))

ParseStatements(stmts) == [i \in 1..Len(stmts) |-> ParseStatement(stmts[i])]

\* The names the body declares with const
ConstNames(body) == SelectSeq(body, LAMBDA d : d.kind = "const")

\* The function of formals and parsed body.
\* ok = FALSE is the SyntaxError the constructor throws: a formal that is no
\* identifier, a statement that does not parse, a const declared twice or
\* named like a formal parameter.
FunctionOf(formals, body, decls, guarded) ==
    [ok |-> /\ \A i \in 1..Len(formals) : IsIdentifier(formals[i])
            /\ \A i \in 1..Len(body) : body[i].ok
            /\ \A i, j \in 1..Len(decls) : i # j => decls[i].name # decls[j].name
            /\ \A i \in 1..Len(decls) : \A j \in 1..Len(formals) :
                    formals[j] # <<decls[i].name>>,
     names |-> [i \in 1..Len(formals) |-> formals[i][1]],
     declared |-> {decls[i].name : i \in 1..Len(decls)},
     body |-> body, guarded |-> guarded]

FunctionOfBody(formals, body, guarded) == FunctionOf(formals, body, ConstNames(body), guarded)

\* new Function(formals..., `${logic} return ${ret};`), or with
\* `try { return ${ret}; } catch(e) { return NaN; }` when guarded
NewFunction(formals, logic, ret, guarded) ==
    FunctionOfBody(formals,
                   ParseStatements(Append(Split(logic, ";"), <<"return", " ">> \o ret)),
                   guarded)

\* The statements in order: each const initialiser sees the formals and the
\* consts initialised before it; the guarded return catches what its
\* expression throws. r is the value of the expression of the first statement.
RECURSIVE RunBody(_, _, _)
Statements(body, scope, guarded, r) ==
    IF Head(body).kind = "empty" THEN RunBody(Tail(body), scope, guarded)
    ELSE IF Head(body).kind = "return"
         THEN (IF r.thrown /\ guarded THEN Value(NaN) ELSE r)
    ELSE IF r.thrown THEN Throw
    ELSE RunBody(Tail(body),
                 [scope EXCEPT !.consts = Append(@, <<Head(body).name, r.v>>)], guarded)

RunBody(body, scope, guarded) ==
    IF body = <<>> THEN Value(Undefined)
    ELSE Statements(body, scope, guarded, Eval(Head(body).e, scope))

\* fn(...args): a missing argument is undefined
CallFunction(fn, args) ==
    RunBody(fn.body,
            [declared |-> fn.declared,
             consts |-> <<>>,
             names |-> fn.names,
             values |-> [i \in 1..Len(fn.names) |->
                            IF i <= Len(args) THEN args[i] ELSE Undefined]],
            fn.guarded)

(***************************************************************************)
(* PlotMathEngine.generateChartConfig                                      *)
(***************************************************************************)

\* const gridSize = 120 in the source; the model samples a coarser grid
gridSize == 2
gridRows == gridSize + 1

\* bound || fallback: a resolution that takes a bound of 0 for a missing one
AxisBoundTruthy(axisObj, key, fallback) ==
    LET b == ObjGet(axisObj, <<key>>)
    IN IF ~isNaN(b) /\ ~(b.t = "num" /\ b.n = 0) THEN b ELSE fallback

\* !isNaN(bound) ? bound : fallback, for bound = blueprint.axis.<a>.<key>
AxisBound(axisObj, key, fallback) ==
    LET b == ObjGet(axisObj, <<key>>)
    IN IF ~isNaN(b) THEN b ELSE fallback

xMinOf(blueprint) == AxisBound(blueprint.axis.x, "min", IntNum(-10))
xMaxOf(blueprint) == AxisBound(blueprint.axis.x, "max", IntNum(10))
yMinOf(blueprint) == AxisBound(blueprint.axis.y, "min", IntNum(-10))
yMaxOf(blueprint) == AxisBound(blueprint.axis.y, "max", IntNum(10))

\* const isImplicit = blueprint.equation.includes('=')
isImplicit(blueprint) == Includes(blueprint.equation, "=")

\* const parts = blueprint.equation.split('=');
\* const diffEquation = `(${parts[0]}) - (${parts[1]})`
diffEquation(equation) ==
    LET parts == Split(equation, "=")
    IN <<"(">> \o parts[1] \o <<")", " ", "-", " ", "(">> \o parts[2] \o <<")">>

Words(names) == [i \in 1..Len(names) |-> <<names[i]>>]

\* Implicit mode: new Function('x', 'y', ...paramKeys, ...mathKeys, `${varLogic}
\*     try { return ${diffEquation}; } catch(e) { return NaN; }`)
\* Function mode: new Function('x', ...paramKeys, ...mathKeys, `${varLogic}
\*     return ${blueprint.equation};`)
evalFn(blueprint, params) ==
    NewFunction((IF isImplicit(blueprint) THEN << <<"x">>, <<"y">> >> ELSE << <<"x">> >>)
                    \o ObjKeys(params) \o Words(mathKeys),
                varLogic(blueprint.vars),
                IF isImplicit(blueprint) THEN diffEquation(blueprint.equation)
                ELSE blueprint.equation,
                isImplicit(blueprint))

\* v >= 0: a sign test that takes a sample of exactly 0 for positive
NonNegative(v) == ~Less(v, IntNum(0)) /\ v.t # "nan"

\* v > 0
Positive(v) == Less(IntNum(0), v)

Epsilon == Num(1, 1000000)

\* Helper: interpolate to find the zero crossing
getInterp(p1, p2, v1, v2) ==
    LET mu == NumDiv(NumAdd(IntNum(0), Neg(v1)), NumAdd(v2, Neg(v1)))
    IN IF Less(MathAbs(NumAdd(v1, Neg(v2))), Epsilon) THEN p1
       ELSE NumAdd(p1, NumMul(mu, NumAdd(p2, Neg(p1))))

\* The numbers of the source are IEEE 754 binary64: every operation rounds
\* its exact result to the nearest number of the format, ties to the even
\* significand.  The format here has the same rounding and a significand of
\* SignificandBits bits (53 in the source), exponents -ExponentRange to
\* ExponentRange, and subnormal numbers below 2 ^ -ExponentRange.
SignificandBits == 3
ExponentRange == 3

\* m * 2 ^ (e - SignificandBits + 1)
FloatOf(m, e) ==
    Num(m * 2 ^ (e + ExponentRange), 2 ^ (SignificandBits - 1 + ExponentRange))

\* The number of the format nearest to the finite a >= 0, ties to even;
\* Infinity from half a step above the largest number on
RoundAbs(a) ==
    IF ~Less(a, FloatOf(2 ^ (SignificandBits + 1) - 1, ExponentRange - 1)) THEN PosInf
    ELSE LET parts == {c \in (0..(2 ^ SignificandBits - 1)) \X ((-ExponentRange)..ExponentRange) :
                          c[1] >= 2 ^ (SignificandBits - 1) \/ c[2] = -ExponentRange}
             dist(c) == MathAbs(NumAdd(a, Neg(FloatOf(c[1], c[2]))))
             best == CHOOSE c \in parts :
                        \A o \in parts :
                            \/ Less(dist(c), dist(o))
                            \/ dist(c) = dist(o) /\ (c = o \/ c[1] % 2 = 0)
         IN FloatOf(best[1], best[2])

\* Rounding of the exact result of an operation
Fl(q) ==
    IF q.t # "num" THEN q
    ELSE IF q.n < 0 THEN Neg(RoundAbs(Neg(q))) ELSE RoundAbs(q)

\* getInterp with every operation rounded
getInterpRounded(p1, p2, v1, v2) ==
    LET mu == Fl(NumDiv(Fl(NumAdd(IntNum(0), Neg(v1))), Fl(NumAdd(v2, Neg(v1)))))
    IN IF Less(MathAbs(Fl(NumAdd(v1, Neg(v2)))), Epsilon) THEN p1
       ELSE Fl(NumAdd(p1, Fl(NumMul(mu, Fl(NumAdd(p2, Neg(p1)))))))

\* if (isNaN(v0) || isNaN(v1) || isNaN(v2) || isNaN(v3)) continue
CellSkipped(v0, v1, v2, v3) == isNaN(v0) \/ isNaN(v1) \/ isNaN(v2) \/ isNaN(v3)

configCode(v0, v1, v2, v3) ==
    (IF Positive(v0) THEN 1 ELSE 0) + (IF Positive(v1) THEN 2 ELSE 0)
    + (IF Positive(v2) THEN 4 ELSE 0) + (IF Positive(v3) THEN 8 ELSE 0)

Point(x, y) == [x |-> x, y |-> y]

\* 2. Marching squares: the points of the cell with corner samples v0..v3
\* and edges xL, xR, yB, yT, in the order bottom, right, top, left
Segments(v0, v1, v2, v3, xL, xR, yB, yT) ==
    IF CellSkipped(v0, v1, v2, v3) THEN <<>>
    ELSE IF ~(configCode(v0, v1, v2, v3) > 0 /\ configCode(v0, v1, v2, v3) < 15) THEN <<>>
    ELSE (IF Positive(v0) # Positive(v1) THEN <<Point(getInterp(xL, xR, v0, v1), yB)>> ELSE <<>>)
      \o (IF Positive(v1) # Positive(v2) THEN <<Point(xR, getInterp(yB, yT, v1, v2))>> ELSE <<>>)
      \o (IF Positive(v2) # Positive(v3) THEN <<Point(getInterp(xR, xL, v2, v3), yT)>> ELSE <<>>)
      \o (IF Positive(v3) # Positive(v0) THEN <<Point(xL, getInterp(yT, yB, v3, v0))>> ELSE <<>>)

CellEdges(v0, v1, v2, v3, xL, yB, dx, dy) ==
    Segments(v0, v1, v2, v3, xL, NumAdd(xL, dx), yB, NumAdd(yB, dy))

\* The points cell (i, j) pushes.
\* values[j * gridRows + i + 1] is the sample at node (i, j).
CellPoints(values, i, j, xMin, yMin, dx, dy) ==
    CellEdges(values[j * gridRows + i + 1],
              values[j * gridRows + i + 2],
              values[(j + 1) * gridRows + (i + 1) + 1],
              values[(j + 1) * gridRows + i + 1],
              NumAdd(xMin, NumMul(IntNum(i), dx)),
              NumAdd(yMin, NumMul(IntNum(j), dy)), dx, dy)

\* The points of s without the repetitions of a point
RECURSIVE Distinct(_)
Distinct(s) ==
    IF s = <<>> THEN <<>>
    ELSE IF \E i \in 1..(Len(s) - 1) : s[i] = s[Len(s)]
         THEN Distinct(SubSeq(s, 1, Len(s) - 1))
         ELSE Append(Distinct(SubSeq(s, 1, Len(s) - 1)), s[Len(s)])

\* Marching squares that push a crossing point once: the point of an edge
\* between two cells is not repeated by the second cell
MarchingSquaresDistinct(values, xMin, yMin, dx, dy) ==
    Distinct(Concat([c \in 1..(gridSize * gridSize) |->
                       CellPoints(values, (c - 1) % gridSize, (c - 1) \div gridSize,
                                  xMin, yMin, dx, dy)]))

\* The marching squares loops: for j, for i, over the gridSize x gridSize cells
MarchingSquares(values, xMin, yMin, dx, dy) ==
    Concat([c \in 1..(gridSize * gridSize) |->
              CellPoints(values, (c - 1) % gridSize, (c - 1) \div gridSize, xMin, yMin, dx, dy)])

\* 1. Sample the grid: the arguments (x, y) at node (i, j), row by row
GridNodes(xMin, yMin, dx, dy) ==
    [k \in 1..(gridRows * gridRows) |->
        <<NumAdd(xMin, NumMul(IntNum((k - 1) % gridRows), dx)),
          NumAdd(yMin, NumMul(IntNum((k - 1) \div gridRows), dy))>>]

\* A sweep for (let i = 0; i < blueprint.steps; i++): it stops one point
\* short of xMax
CurveXsOpen(steps, xMin, xMax) ==
    [k \in 1..steps |->
        <<NumAdd(xMin, NumDiv(NumMul(NumAdd(xMax, Neg(xMin)), IntNum(k - 1)), IntNum(steps)))>>]

\* Function mode: const x = xMin + ((xMax - xMin) * i) / blueprint.steps,
\* for (let i = 0; i <= blueprint.steps; i++)
CurveXs(steps, xMin, xMax) ==
    [k \in 1..(steps + 1) |->
        <<NumAdd(xMin, NumDiv(NumMul(NumAdd(xMax, Neg(xMin)), IntNum(k - 1)), IntNum(steps)))>>]

\* evalFn2D(px, py, ...paramValues, ...mathValues) at each node, or
\* evalFn(x, ...paramValues, ...mathValues) at each x
Calls(fn, params, points) ==
    [k \in 1..Len(points) |-> CallFunction(fn, points[k] \o ObjValues(params) \o mathValues)]

\* A Float64Array element holds ToNumber of what is stored
GridValues(samples) == [k \in 1..Len(samples) |-> ToNumber(samples[k].v)]

\* chartData: the contour points, or the {x, y} of the sweep
ChartData(blueprint, points, calls, xMin, yMin, dx, dy) ==
    IF isImplicit(blueprint)
    THEN MarchingSquares(GridValues(calls), xMin, yMin, dx, dy)
    ELSE [k \in 1..Len(points) |-> Point(points[k][1], calls[k].v)]

\* An engine that takes a sample that is no finite number for a failure
OutcomeStrict(blueprint, fn, points, calls, xMin, yMin, dx, dy) ==
    IF ~fn.ok THEN [thrown |-> TRUE, data |-> <<>>]
    ELSE IF \E k \in 1..Len(calls) : calls[k].thrown \/ ~IsFin(ToNumber(calls[k].v))
    THEN [thrown |-> TRUE, data |-> <<>>]
    ELSE [thrown |-> FALSE, data |-> ChartData(blueprint, points, calls, xMin, yMin, dx, dy)]

\* The outcome of the try block: thrown by the constructor or by a call,
\* else chartData
Outcome(blueprint, fn, points, calls, xMin, yMin, dx, dy) ==
    IF ~fn.ok THEN [thrown |-> TRUE, data |-> <<>>]
    ELSE IF \E k \in 1..Len(calls) : calls[k].thrown THEN [thrown |-> TRUE, data |-> <<>>]
    ELSE [thrown |-> FALSE, data |-> ChartData(blueprint, points, calls, xMin, yMin, dx, dy)]

Evaluate(blueprint, params, fn, points, xMin, yMin, dx, dy) ==
    Outcome(blueprint, fn, points, Calls(fn, params, points), xMin, yMin, dx, dy)

\* The try block with the evaluator fn: const dx = (xMax - xMin) / gridSize,
\* const dy = (yMax - yMin) / gridSize
TryBlock(blueprint, params, fn, xMin, xMax, yMin, yMax) ==
    LET dx == NumDiv(NumAdd(xMax, Neg(xMin)), IntNum(gridSize))
        dy == NumDiv(NumAdd(yMax, Neg(yMin)), IntNum(gridSize))
    IN Evaluate(blueprint, params, fn,
                IF isImplicit(blueprint) THEN GridNodes(xMin, yMin, dx, dy)
                ELSE CurveXs(blueprint.steps, xMin, xMax),
                xMin, yMin, dx, dy)

\* text || fallback for an axis title or the dataset label
OrElse(v, fallback) ==
    IF v.t = "undef" \/ v.t = "nan" \/ (v.t = "num" /\ v.n = 0) \/ (v.t = "str" /\ v.s = <<>>)
    THEN Str(fallback) ELSE v

\* The returned Chart.js configuration (its constant styling left out);
\* thrown is the Error `Equation Error: ...` of the catch block
ChartConfig(blueprint, r, xMin, xMax, yMin, yMax) ==
    [thrown |-> r.thrown,
     config |->
       [type |-> IF isImplicit(blueprint) THEN "scatter" ELSE "line",
        data |-> [label |-> OrElse(Str(blueprint.title), <<"Plot">>),
                  data |-> r.data,
                  borderColor |-> blueprint.color,
                  showLine |-> ~isImplicit(blueprint)],
        options |->
          [x |-> [title |-> OrElse(ObjGet(blueprint.axis.x, <<"title">>), <<"X">>),
                  min |-> xMin, max |-> xMax],
           y |-> [title |-> OrElse(ObjGet(blueprint.axis.y, <<"title">>), <<"Y">>),
                  min |-> yMin, max |-> yMax]]]]

ConfigWithin(blueprint, params, xMin, xMax, yMin, yMax) ==
    ChartConfig(blueprint,
                TryBlock(blueprint, params, evalFn(blueprint, params), xMin, xMax, yMin, yMax),
                xMin, xMax, yMin, yMax)

\* generateChartConfig(blueprint, params)
generateChartConfig(blueprint, params) ==
    ConfigWithin(blueprint, params, xMinOf(blueprint), xMaxOf(blueprint),
                 yMinOf(blueprint), yMaxOf(blueprint))

(***************************************************************************)
(* MarkdownViewer.renderDynamicCharts: one blueprint chart container       *)
(***************************************************************************)

\* The number of positions of a slider the model moves it to
MaxSliderPositions == 3

\* The decimal digits of a natural number
RECURSIVE NatToString(_)
NatToString(n) ==
    IF n < 10 THEN <<Digits[n + 1]>> ELSE NatToString(n \div 10) \o <<Digits[(n % 10) + 1]>>

\* The number of decimal places of a finite decimal n/d
RECURSIVE DecimalPlaces(_, _)
DecimalPlaces(d, k) == IF Pow10(k) % d = 0 THEN k ELSE DecimalPlaces(d, k + 1)

RECURSIVE ZeroPad(_, _)
ZeroPad(s, k) == IF Len(s) >= k THEN s ELSE ZeroPad(<<"0">> \o s, k)

\* Number::toString of a finite decimal: the text input.value holds
NumberToString(v) ==
    LET k == DecimalPlaces(v.d, 0)
        scaled == (AbsInt(v.n) * Pow10(k)) \div v.d
        frac == ZeroPad(NatToString(scaled % Pow10(k)), k)
    IN (IF v.n < 0 THEN <<"-">> ELSE <<>>)
       \o NatToString(scaled \div Pow10(k))
       \o (IF k = 0 THEN <<>> ELSE <<".">> \o frac)

\* Global parseFloat(string): the longest prefix that is a decimal literal
parseFloat(s) ==
    LET t == TrimStart(s)
        neg == t # <<>> /\ Head(t) = "-"
        u == IF t # <<>> /\ Head(t) \in {"-", "+"} THEN Tail(t) ELSE t
        ip == DigitPrefix(u)
        r == SubSeq(u, Len(ip) + 1, Len(u))
        fp == IF r # <<>> /\ Head(r) = "." THEN DigitPrefix(Tail(r)) ELSE <<>>
        sg == IF neg THEN -1 ELSE 1
    IN IF u # <<>> /\ Head(u) = "Infinity" THEN (IF neg THEN NegInf ELSE PosInf)
       ELSE IF Len(ip) + Len(fp) = 0 THEN NaN
       ELSE Num(sg * (DigitsValue(ip) * Pow10(Len(fp)) + DigitsValue(fp)), Pow10(Len(fp)))

\* <input type="range" min="${p.min}" max="${p.max}" step="${p.step || 1}">:
\* an attribute that is no finite number takes the default of the range state
\* (min 0, max 100, step 1)
SliderMin(p) == LET v == ObjGet(p, <<"min">>) IN IF v.t = "num" THEN v ELSE IntNum(0)
SliderMax(p) == LET v == ObjGet(p, <<"max">>) IN IF v.t = "num" THEN v ELSE IntNum(100)
SliderStep(p) ==
    LET v == ObjGet(p, <<"step">>) IN IF v.t = "num" /\ v.n > 0 THEN v ELSE IntNum(1)

\* The texts input.value can hold: min + k * step up to max (min itself when
\* max < min), for the first MaxSliderPositions positions
SliderTexts(p) ==
    {NumberToString(NumAdd(SliderMin(p), NumMul(IntNum(k), SliderStep(p)))) :
        k \in {k \in 0..(MaxSliderPositions - 1) :
                 k = 0 \/ LessEq(NumAdd(SliderMin(p), NumMul(IntNum(k), SliderStep(p))),
                                 SliderMax(p))}}

\* const params = {}; for (const key in setup.parameters)
\*     params[key] = setup.parameters[key].value
RECURSIVE InitialParamsFrom(_, _)
InitialParamsFrom(params, parameters) ==
    IF parameters = <<>> THEN params
    ELSE InitialParamsFrom(ObjSet(params, Head(parameters)[1],
                                  ObjGet(Head(parameters)[2], <<"value">>)),
                           Tail(parameters))

InitialParams(parameters) == InitialParamsFrom(EmptyObj, parameters)

\* A listener that leaves the chart as it is
AutoUpdateStale(chartNow, newConfig) == chartNow

\* The standard blueprint auto-update of the slider listener:
\* const newConfig = setup.init(params); chart.data = newConfig.data
AutoUpdate(chartNow, newConfig) == [chartNow EXCEPT !.data = newConfig.data]

\* No chart, no blueprint yet
Null == [null |-> TRUE]

VARIABLES
    rawData,   \* the decoded data-code of the container: the blueprint text
    pc,        \* "placeholder", "parsed" (parseBlueprint alone), "chart", "error"
    setup,     \* the parsed blueprint
    params,    \* the live parameter assignment
    chart,     \* the Chart instance: type, data, options
    parses,    \* how many times parseBlueprint ran for this container
    thrown,    \* whether the last slider listener ended in an exception
    charts,    \* the containers of a page with several charts, each with its
               \* own rawData, pc, setup, params, chart, thrown
    call       \* a step of the marching squares loop on its own: the corner
               \* samples of one cell and the points it pushed, or the
               \* arguments of one getInterp call and its result

vars == <<rawData, pc, setup, params, chart, parses, thrown, charts, call>>

\* The chart initialisation and the catch block of renderDynamicCharts
InitChart(bp, ps, chartConfig) ==
    /\ setup' = bp
    /\ params' = ps
    /\ parses' = parses + 1
    /\ IF chartConfig.thrown
       THEN pc' = "error" /\ chart' = Null
       ELSE pc' = "chart" /\ chart' = chartConfig.config

RenderParsed(bp, ps) == InitChart(bp, ps, generateChartConfig(bp, ps))

RenderBlueprint(bp) == RenderParsed(bp, InitialParams(bp.parameters))

\* renderDynamicCharts on a container of type blueprint: parse, build the
\* assignment and the sliders, initialise the chart; the catch block shows
\* the error instead
Render ==
    /\ pc = "placeholder"
    /\ RenderBlueprint(parseBlueprint(rawData))
    /\ UNCHANGED <<rawData, thrown, charts, call>>

\* A listener that empties the series when setup.init throws
UpdateChartClearing(ps, newConfig) ==
    /\ params' = ps
    /\ IF newConfig.thrown
       THEN thrown' = TRUE /\ chart' = [chart EXCEPT !.data.data = <<>>]
       ELSE thrown' = FALSE /\ chart' = AutoUpdate(chart, newConfig.config)

\* chart.data = newConfig.data; chart.update('none'), unless setup.init threw
UpdateChart(ps, newConfig) ==
    /\ params' = ps
    /\ IF newConfig.thrown
       THEN thrown' = TRUE /\ chart' = chart
       ELSE thrown' = FALSE /\ chart' = AutoUpdate(chart, newConfig.config)

SliderUpdate(ps) == UpdateChart(ps, generateChartConfig(setup, ps))

\* A listener that also writes the new value into the declaration of the
\* parameter in the blueprint: it differs from the input listener in what
\* the blueprint is after a slider change
SliderInputStoring(key, text) ==
    /\ SliderUpdate(ObjSet(params, key, parseFloat(text)))
    /\ setup' = [setup EXCEPT !.parameters =
                     ObjSet(@, key, ObjSet(ObjGet(@, key), <<"value">>, parseFloat(text)))]
    /\ UNCHANGED <<rawData, pc, parses, charts, call>>

\* The input listener of the slider of parameter key, input.value = text
SliderInputOf(key, text) ==
    /\ SliderUpdate(ObjSet(params, key, parseFloat(text)))
    /\ UNCHANGED <<rawData, pc, setup, parses, charts, call>>

SliderInput ==
    /\ pc = "chart"
    /\ \E i \in 1..Len(setup.parameters) :
          \E text \in SliderTexts(setup.parameters[i][2]) :
              SliderInputOf(setup.parameters[i][1], text)

\* PlotMathEngine.parseBlueprint called on its own
ParseBlueprint ==
    /\ pc = "placeholder"
    /\ setup' = parseBlueprint(rawData)
    /\ pc' = "parsed"
    /\ parses' = parses + 1
    /\ UNCHANGED <<rawData, params, chart, thrown, charts, call>>

\* The body of the marching squares loops for one cell, with the corner
\* samples v0 (bottom-left), v1 (bottom-right), v2 (top-right), v3 (top-left)
MarchCell ==
    /\ call.fn = "cell"
    /\ ~call.done
    /\ call' = [call EXCEPT !.done = TRUE,
                            !.points = CellEdges(call.v[1], call.v[2], call.v[3], call.v[4],
                                                 call.xL, call.yB, call.dx, call.dy)]
    /\ UNCHANGED <<rawData, pc, setup, params, chart, parses, thrown, charts>>

\* One call of getInterp(p1, p2, v1, v2) of the marching squares loop
Interpolate ==
    /\ call.fn = "getInterp"
    /\ ~call.done
    /\ call' = [call EXCEPT !.done = TRUE,
                            !.result = getInterpRounded(call.p1, call.p2, call.v1, call.v2)]
    /\ UNCHANGED <<rawData, pc, setup, params, chart, parses, thrown, charts>>

\* The containers of one page: containers.forEach((container) => { ... })
Containers == {"plot-1", "plot-2"}

\* A container before renderDynamicCharts reached it: the locals of the
\* forEach callback do not exist yet
Placeholder(raw) ==
    [rawData |-> raw, pc |-> "placeholder", setup |-> Null, params |-> EmptyObj,
     chart |-> Null, thrown |-> FALSE]

\* The locals of the callback of one container after its chart was
\* initialised, or after the catch block replaced it by the error text
ContainerInit(c, bp, ps, chartConfig) ==
    [c EXCEPT !.setup = bp,
              !.params = ps,
              !.pc = IF chartConfig.thrown THEN "error" ELSE "chart",
              !.chart = IF chartConfig.thrown THEN Null ELSE chartConfig.config]

ContainerParsed(c, bp, ps) == ContainerInit(c, bp, ps, generateChartConfig(bp, ps))

ContainerBlueprint(c, bp) == ContainerParsed(c, bp, InitialParams(bp.parameters))

ContainerRendered(c) == ContainerBlueprint(c, parseBlueprint(c.rawData))

\* The locals of the callback after the input listener of one of its sliders
ContainerUpdate(c, ps, newConfig) ==
    [c EXCEPT !.params = ps,
              !.thrown = newConfig.thrown,
              !.chart = IF newConfig.thrown THEN @ ELSE AutoUpdate(@, newConfig.config)]

ContainerSlid(c, ps) == ContainerUpdate(c, ps, generateChartConfig(c.setup, ps))

ContainerInput(c, key, text) == ContainerSlid(c, ObjSet(c.params, key, parseFloat(text)))

\* One callback of containers.forEach
RenderContainer ==
    /\ \E id \in Containers :
          /\ charts[id].pc = "placeholder"
          /\ charts' = [charts EXCEPT ![id] = ContainerRendered(@)]
    /\ UNCHANGED <<rawData, pc, setup, params, chart, parses, thrown, call>>

\* Listeners that write into one params object shared by all containers:
\* they differ from the listeners of the code in what a slider change does
\* to the other charts of the page
ContainerInputShared(id, key, text) ==
    charts' = [d \in Containers |->
                 IF d = id
                 THEN ContainerInput(charts[d], key, text)
                 ELSE IF charts[d].pc = "chart" /\ HasKey(charts[d].params, key)
                      THEN [charts[d] EXCEPT !.params = ObjSet(@, key, parseFloat(text))]
                      ELSE charts[d]]

\* The input listener of the slider of parameter key of container id
ContainerInputOf(id, key, text) ==
    charts' = [charts EXCEPT ![id] = ContainerInput(@, key, text)]

ContainerSliderInput ==
    /\ \E id \in Containers :
          /\ charts[id].pc = "chart"
          /\ \E i \in 1..Len(charts[id].setup.parameters) :
                \E text \in SliderTexts(charts[id].setup.parameters[i][2]) :
                    ContainerInputOf(id, charts[id].setup.parameters[i][1], text)
    /\ UNCHANGED <<rawData, pc, setup, params, chart, parses, thrown, call>>

(***************************************************************************)
(* The blueprint texts of the model: lines, and the texts built from them  *)
(***************************************************************************)

\* equation: x ** 2
EqSquare ==
    <<"equation", ":", " ", "x", " ", "*", "*", " ", "2">>

\* equation: Z * x + R
EqUsesZ ==
    <<"equation", ":", " ", "Z", " ", "*", " ", "x", " ", "+", " ", "R">>

\* equation: W - x
EqUsesW ==
    <<"equation", ":", " ", "W", " ", "-", " ", "x">>

\* equation: 1 / (x - R)
EqPole ==
    <<"equation", ":", " ", "1", " ", "/", " ", "(", "x", " ", "-", " ", "R", ")">>

\* equation: 0 / x
EqNaN ==
    <<"equation", ":", " ", "0", " ", "/", " ", "x">>

\* equation: foo + x
EqUndeclared ==
    <<"equation", ":", " ", "foo", " ", "+", " ", "x">>

\* equation: (x + 1
EqSyntax ==
    <<"equation", ":", " ", "(", "x", " ", "+", " ", "1">>

\* equation: R(x)
EqCallNumber ==
    <<"equation", ":", " ", "R", "(", "x", ")">>

\* equation: x
EqIdentity ==
    <<"equation", ":", " ", "x">>

\* equation: foo
EqFoo ==
    <<"equation", ":", " ", "foo">>

\* equation: R * x
EqLinear ==
    <<"equation", ":", " ", "R", " ", "*", " ", "x">>

\* equation: x = y
ImplDiagonal ==
    <<"equation", ":", " ", "x", " ", "=", " ", "y">>

\* equation: 1 / x = y
ImplPole ==
    <<"equation", ":", " ", "1", " ", "/", " ", "x", " ", "=", " ", "y">>

\* equation: 0 / x = y
ImplNaN ==
    <<"equation", ":", " ", "0", " ", "/", " ", "x", " ", "=", " ", "y">>

\* equation: foo = y
ImplUndeclared ==
    <<"equation", ":", " ", "foo", " ", "=", " ", "y">>

\* equation: y = a * x
ImplLine ==
    <<"equation", ":", " ", "y", " ", "=", " ", "a", " ", "*", " ", "x">>

\* equation: x * x + y * y = a
ImplCircle ==
    <<"equation", ":", " ", "x", " ", "*", " ", "x", " ", "+", " ", "y", " ", "*", " ", "y",
      " ", "=", " ", "a">>

\* equation: x = y = 2
ImplTwoEquals ==
    <<"equation", ":", " ", "x", " ", "=", " ", "y", " ", "=", " ", "2">>

\* equation: 1 / (x - a) = y
ImplShiftedPole ==
    <<"equation", ":", " ", "1", " ", "/", " ", "(", "x", " ", "-", " ", "a", ")", " ", "=",
      " ", "y">>

\* equation: (x - y = 0)
ImplNested ==
    <<"equation", ":", " ", "(", "x", " ", "-", " ", "y", " ", "=", " ", "0", ")">>

\* steps: 4
StepsFour ==
    <<"steps", ":", " ", "4">>

\* steps: 2
StepsTwo ==
    <<"steps", ":", " ", "2">>

\* steps: -5
StepsNegative ==
    <<"steps", ":", " ", "-", "5">>

\* steps: 0
StepsZero ==
    <<"steps", ":", " ", "0">>

\* steps: 12abc
StepsSuffix ==
    <<"steps", ":", " ", "1", "2", "abc">>

\* steps: 3.7
StepsFraction ==
    <<"steps", ":", " ", "3", ".", "7">>

\* steps: many
StepsWord ==
    <<"steps", ":", " ", "many">>

\* params:
ParamsHeader ==
    <<"params", ":">>

\* vars:
VarsHeader ==
    <<"vars", ":">>

\* axis:
AxisHeader ==
    <<"axis", ":">>

\*   R: { label: "Res", value: 3, min: 3, max: 5, step: 1 }
ParamR ==
    <<" ", " ", "R", ":", " ", "{", " ", "label", ":", " ", "\"", "Res", "\"", ",", " ",
      "value", ":", " ", "3", ",", " ", "min", ":", " ", "3", ",", " ", "max", ":", " ", "5",
      ",", " ", "step", ":", " ", "1", " ", "}">>

\*   X: { label: "Reac", value: 4, min: 4, max: 5, step: 0.5 }
ParamX ==
    <<" ", " ", "X", ":", " ", "{", " ", "label", ":", " ", "\"", "Reac", "\"", ",", " ",
      "value", ":", " ", "4", ",", " ", "min", ":", " ", "4", ",", " ", "max", ":", " ", "5",
      ",", " ", "step", ":", " ", "0", ".", "5", " ", "}">>

\*   a: { label: "a", value: 1, min: 0, max: 2, step: 1 }
ParamA ==
    <<" ", " ", "a", ":", " ", "{", " ", "label", ":", " ", "\"", "a", "\"", ",", " ", "value",
      ":", " ", "1", ",", " ", "min", ":", " ", "0", ",", " ", "max", ":", " ", "2", ",", " ",
      "step", ":", " ", "1", " ", "}">>

\*   R: { label: "R", min: 0, max: 2 }
ParamNoValue ==
    <<" ", " ", "R", ":", " ", "{", " ", "label", ":", " ", "\"", "R", "\"", ",", " ", "min",
      ":", " ", "0", ",", " ", "max", ":", " ", "2", " ", "}">>

\*   R: { value: "abc", min: 0, max: 2 }
ParamTextValue ==
    <<" ", " ", "R", ":", " ", "{", " ", "value", ":", " ", "\"", "abc", "\"", ",", " ", "min",
      ":", " ", "0", ",", " ", "max", ":", " ", "2", " ", "}">>

\*   R: { value: 2 }
ParamNoRange ==
    <<" ", " ", "R", ":", " ", "{", " ", "value", ":", " ", "2", " ", "}">>

\*   R: { value: 1, min: 0, max: 1, step: 0.5 }
ParamHalfStep ==
    <<" ", " ", "R", ":", " ", "{", " ", "value", ":", " ", "1", ",", " ", "min", ":", " ",
      "0", ",", " ", "max", ":", " ", "1", ",", " ", "step", ":", " ", "0", ".", "5", " ", "}">>

\*   R: 5
ParamNoBraces ==
    <<" ", " ", "R", ":", " ", "5">>

\*   Z: sqrt(R**2 + X**2)
VarZ ==
    <<" ", " ", "Z", ":", " ", "sqrt", "(", "R", "*", "*", "2", " ", "+", " ", "X", "*", "*",
      "2", ")">>

\*   W: Z + 1
VarW ==
    <<" ", " ", "W", ":", " ", "Z", " ", "+", " ", "1">>

\*   x: { title: "t", min: 0, max: 4 }
AxisX04 ==
    <<" ", " ", "x", ":", " ", "{", " ", "title", ":", " ", "\"", "t", "\"", ",", " ", "min",
      ":", " ", "0", ",", " ", "max", ":", " ", "4", " ", "}">>

\*   x: { min: -1, max: 1 }
AxisXUnit ==
    <<" ", " ", "x", ":", " ", "{", " ", "min", ":", " ", "-", "1", ",", " ", "max", ":", " ",
      "1", " ", "}">>

\*   y: { min: -1, max: 1 }
AxisYUnit ==
    <<" ", " ", "y", ":", " ", "{", " ", "min", ":", " ", "-", "1", ",", " ", "max", ":", " ",
      "1", " ", "}">>


\* Variables:
VariablesHeader ==
    <<"Variables", ":">>

\*   S: ({ v: R }).v
VarObject ==
    <<" ", " ", "S", ":", " ", "(", "{", " ", "v", ":", " ", "R", " ", "}", ")", ".", "v">>

\*   R: { label: "a, b", value: 3 }
ParamQuoted ==
    <<" ", " ", "R", ":", " ", "{", " ", "label", ":", " ", "\"", "a", ",", " ", "b", "\"",
      ",", " ", "value", ":", " ", "3", " ", "}">>

\*   R: { value: 3
ParamOpenBrace ==
    <<" ", " ", "R", ":", " ", "{", " ", "value", ":", " ", "3">>

\*   x: { min: 0
AxisOpenBrace ==
    <<" ", " ", "x", ":", " ", "{", " ", "min", ":", " ", "0">>

\* equation: K
EqVarK ==
    <<"equation", ":", " ", "K">>

\* equation: K = y
ImplVarK ==
    <<"equation", ":", " ", "K", " ", "=", " ", "y">>

\*   K: x * 2
VarKOfX ==
    <<" ", " ", "K", ":", " ", "x", " ", "*", " ", "2">>

\*   K: foo + 1
VarKUndeclared ==
    <<" ", " ", "K", ":", " ", "foo", " ", "+", " ", "1">>

\*   K: 1 / 0
VarKInf ==
    <<" ", " ", "K", ":", " ", "1", " ", "/", " ", "0">>

\*   K: J + 1
VarKOfJ ==
    <<" ", " ", "K", ":", " ", "J", " ", "+", " ", "1">>

\*   J: 2
VarJ ==
    <<" ", " ", "J", ":", " ", "2">>

\*   J: K * 2
VarJOfK ==
    <<" ", " ", "J", ":", " ", "K", " ", "*", " ", "2">>

\*   K: K + 1
VarKSelf ==
    <<" ", " ", "K", ":", " ", "K", " ", "+", " ", "1">>

\*   D: { value: 100, min: 100, max: 101, step: 1 }
ParamD ==
    <<" ", " ", "D", ":", " ", "{", " ", "value", ":", " ", "1", "0", "0", ",", " ", "min",
      ":", " ", "1", "0", "0", ",", " ", "max", ":", " ", "1", "0", "1", ",", " ", "step", ":",
      " ", "1", " ", "}">>

\*   K: x.toFixed(D)
VarKFixed ==
    <<" ", " ", "K", ":", " ", "x", ".", "toFixed", "(", "D", ")">>

\* hello world
LinePlain ==
    <<"hello", " ", "world">>

\* # title: x
LineComment ==
    <<"#", " ", "title", ":", " ", "x">>

\* foo: bar
LineUnknownKey ==
    <<"foo", ":", " ", "bar">>

\* title: T
LineTitle ==
    <<"title", ":", " ", "T">>

\* steps: 4, before a carriage return and line feed
StepsCR ==
    <<"steps", ":", " ", "4", "\r">>

\* The lines of a text joined by line feeds
RECURSIVE JoinLines(_)
JoinLines(lines) ==
    IF lines = <<>> THEN <<>>
    ELSE IF Len(lines) = 1 THEN lines[1]
    ELSE lines[1] \o <<"\n">> \o JoinLines(Tail(lines))

\* Function-mode blueprints: an equation of x over parameters R, X and the
\* variables Z, W, sampled at x = 0, 1, 2, 3, 4
ExplicitEquations ==
    {EqSquare, EqUsesZ, EqUsesW, EqPole, EqNaN, EqUndeclared, EqSyntax, EqCallNumber}

ExplicitContexts ==
    {<<StepsFour, ParamsHeader, ParamR, ParamX, VarsHeader, VarZ, VarW, AxisHeader, AxisX04>>,
     <<StepsFour, VarsHeader, VarW, VarZ, ParamsHeader, ParamR, ParamX, AxisHeader, AxisX04>>,
     <<StepsFour, ParamsHeader, ParamR, ParamX, AxisHeader, AxisX04, AxisYUnit>>}

\* Implicit blueprints over the parameter a, on the grid of [-1, 1] x [-1, 1]
\* and on the default grid
ImplicitEquations ==
    {ImplDiagonal, ImplPole, ImplNaN, ImplUndeclared, ImplLine, ImplCircle, ImplTwoEquals,
     ImplShiftedPole, ImplNested}

ImplicitContexts ==
    {<<ParamsHeader, ParamA, AxisHeader, AxisXUnit, AxisYUnit>>,
     <<ParamsHeader, ParamA>>}

\* The steps key in its forms, with an equation that evaluates and one that
\* does not
StepsContexts ==
    {<<>>, <<StepsNegative>>, <<StepsZero>>, <<StepsSuffix>>, <<StepsFraction>>, <<StepsWord>>}

\* The declaration of parameter R in its forms
ParamContexts ==
    {<<StepsTwo, ParamsHeader, pr>> :
        pr \in {ParamNoValue, ParamTextValue, ParamNoRange, ParamHalfStep, ParamNoBraces}}

\* Variables K and J that refer to each other: K after J, K before J, a
\* cycle, and K referring to itself
VarOrders ==
    {<<VarJ, VarKOfJ>>, <<VarKOfJ, VarJ>>, <<VarKOfJ, VarJOfK>>, <<VarKSelf>>}

\* Blueprints whose equation is a variable: one computed from x, in both
\* modes, and one computed from a name declared nowhere
VarTexts ==
    {JoinLines(<<EqVarK, StepsTwo, VarsHeader, VarKOfX>>),
     JoinLines(<<ImplVarK, VarsHeader, VarKOfX, AxisHeader, AxisXUnit, AxisYUnit>>),
     JoinLines(<<ImplVarK, VarsHeader, VarKUndeclared>>),
     JoinLines(<<ImplVarK, ParamsHeader, ParamA, VarsHeader, VarKUndeclared>>),
     JoinLines(<<EqVarK, StepsTwo, VarsHeader, VarKInf>>),
     JoinLines(<<ImplVarK, VarsHeader, VarKInf>>)}
    \cup {JoinLines(<<EqVarK, StepsTwo, VarsHeader>> \o c) : c \in VarOrders}
    \cup {JoinLines(<<ImplVarK, VarsHeader>> \o c) : c \in VarOrders}
    \cup {JoinLines(<<EqLinear, StepsTwo, ParamsHeader, ParamR, ParamD, VarsHeader, VarKFixed>>)}

\* equation: abs(x) * R
EqAbsR ==
    <<"equation", ":", " ", "abs", "(", "x", ")", " ", "*", " ", "R">>

\* equation: y = abs(x)
ImplAbs ==
    <<"equation", ":", " ", "y", " ", "=", " ", "abs", "(", "x", ")">>

\*   abs: { label: "abs", value: 7, min: 6, max: 8, step: 1 }
ParamAbs ==
    <<" ", " ", "abs", ":", " ", "{", " ", "label", ":", " ", "\"", "abs", "\"", ",", " ",
      "value", ":", " ", "7", ",", " ", "min", ":", " ", "6", ",", " ", "max", ":", " ", "8",
      ",", " ", "step", ":", " ", "1", " ", "}">>

\* equation: x + PI
EqPlusPI ==
    <<"equation", ":", " ", "x", " ", "+", " ", "PI">>

\*   PI: { label: "PI", value: 3, min: 3, max: 4, step: 1 }
ParamPI ==
    <<" ", " ", "PI", ":", " ", "{", " ", "label", ":", " ", "\"", "PI", "\"", ",", " ",
      "value", ":", " ", "3", ",", " ", "min", ":", " ", "3", ",", " ", "max", ":", " ", "4",
      ",", " ", "step", ":", " ", "1", " ", "}">>

\* Blueprints that declare a parameter under the name of a math-library
\* function or constant their equation uses
CollisionTexts ==
    {JoinLines(<<EqAbsR, StepsTwo, ParamsHeader, ParamR, ParamAbs>>),
     JoinLines(<<EqAbsR, StepsTwo, ParamsHeader, ParamAbs, ParamR>>),
     JoinLines(<<ImplAbs, ParamsHeader, ParamAbs>>),
     JoinLines(<<EqPlusPI, StepsTwo, ParamsHeader, ParamPI>>)}

Texts ==
    {JoinLines(<<e>> \o c) : e \in ExplicitEquations, c \in ExplicitContexts}
    \cup {JoinLines(<<e>> \o c) : e \in ImplicitEquations, c \in ImplicitContexts}
    \cup {JoinLines(<<e>> \o c) : e \in {EqIdentity, EqFoo}, c \in StepsContexts}
    \cup {JoinLines(<<EqLinear>> \o c) : c \in ParamContexts}
    \cup VarTexts
    \cup CollisionTexts

(***************************************************************************)
(* The specification of one blueprint chart                                *)
(***************************************************************************)

Start ==
    /\ pc = "placeholder"
    /\ setup = Null
    /\ params = EmptyObj
    /\ chart = Null
    /\ parses = 0
    /\ thrown = FALSE

Init == rawData \in Texts /\ Start /\ charts = <<>> /\ call = Null

Next == Render \/ SliderInput

Spec == Init /\ [][Next]_vars

(***************************************************************************)
(* The parser on its own, on any text of up to MaxLines lines              *)
(***************************************************************************)

MaxLines == 2

\* Lines with and without recognizable keys
Lines ==
    {<<>>, LinePlain, LineComment, LineUnknownKey, LineTitle, EqSquare, StepsFour,
     StepsNegative, StepsWord, StepsCR, ParamsHeader, ParamNoRange, AxisHeader, AxisX04,
     VarsHeader, VariablesHeader, VarW, VarObject, ParamQuoted, ParamNoBraces,
     ParamOpenBrace, AxisOpenBrace}

\* Longer texts: sections with several nested lines, and a section closed
\* by a root key
SectionTexts ==
    {<<ParamsHeader, ParamNoBraces, ParamNoRange>>,
     <<ParamsHeader, ParamNoRange, ParamOpenBrace, ParamA>>,
     <<AxisHeader, AxisX04, AxisOpenBrace, AxisYUnit>>,
     <<VarsHeader, VarObject, VarW>>,
     <<ParamsHeader, LineComment, ParamNoRange, LineTitle, ParamA>>,
     <<VariablesHeader, VarW, <<>>, LinePlain, VarZ, LineUnknownKey, VarW>>,
     <<EqUsesZ, StepsFour, ParamsHeader, ParamR, ParamX, VarsHeader, VarZ, VarW,
       AxisHeader, AxisX04, AxisYUnit>>,
     <<LineComment, LineTitle, ParamNoRange, <<>>, ParamsHeader, ParamA, VarsHeader, VarJ>>}

ParseTexts ==
    {JoinLines(ls) : ls \in UNION {[1..n -> Lines] : n \in 0..MaxLines} \cup SectionTexts}

InitParse == rawData \in ParseTexts /\ Start /\ charts = <<>> /\ call = Null

NextParse == ParseBlueprint

SpecParse == InitParse /\ [][NextParse]_vars

(***************************************************************************)
(* A page with several blueprint charts                                    *)
(***************************************************************************)

ChartTexts ==
    {JoinLines(<<EqLinear, StepsTwo, ParamsHeader, ParamR>>),
     JoinLines(<<ImplLine, ParamsHeader, ParamA>>),
     JoinLines(<<EqLinear, StepsTwo, ParamsHeader, ParamR, ParamD, VarsHeader, VarKFixed>>)}

InitCharts ==
    /\ rawData = <<>>
    /\ Start
    /\ charts \in [Containers -> {Placeholder(raw) : raw \in ChartTexts}]
    /\ call = Null

NextCharts == RenderContainer \/ ContainerSliderInput

SpecCharts == InitCharts /\ [][NextCharts]_vars

(***************************************************************************)
(* One cell of the grid on its own, on any four corner samples             *)
(***************************************************************************)

\* What a Float64Array element can hold: finite numbers of either sign,
\* zero, the infinities and NaN
Samples == {IntNum(-3), IntNum(-1), IntNum(0), IntNum(1), IntNum(2), PosInf, NegInf, NaN}

\* The cell with xL = 2, yB = -1 of a grid with dx = 4, dy = 2
CellCalls ==
    {[fn |-> "cell", v |-> v, xL |-> IntNum(2), yB |-> IntNum(-1), dx |-> IntNum(4),
      dy |-> IntNum(2), done |-> FALSE, points |-> <<>>] : v \in [1..4 -> Samples]}

InitCell ==
    /\ rawData = <<>>
    /\ Start
    /\ charts = <<>>
    /\ call \in CellCalls

NextCell == MarchCell

SpecCell == InitCell /\ [][NextCell]_vars

(***************************************************************************)
(* The edge interpolation on its own, on numbers of the format             *)
(***************************************************************************)

\* Edge ends: coordinates of grid nodes
Ends == {Fl(Num(n, 2)) : n \in {-14, -7, -1, 0, 1, 3, 7, 14}}

\* Samples at the two ends
EndValues == {Fl(Num(n, 4)) : n \in {-12, -4, -1, 0, 1, 4, 12}}

InterpCalls ==
    {[fn |-> "getInterp", p1 |-> p1, p2 |-> p2, v1 |-> v1, v2 |-> v2,
      done |-> FALSE, result |-> NaN] :
        p1 \in Ends, p2 \in Ends, v1 \in EndValues, v2 \in EndValues}

InitInterp ==
    /\ rawData = <<>>
    /\ Start
    /\ charts = <<>>
    /\ call \in InterpCalls

NextInterp == Interpolate

SpecInterp == InitInterp /\ [][NextInterp]_vars

(***************************************************************************)
(* Properties                                                              *)
(***************************************************************************)

\* The identifiers of an expression text
Identifiers(text) ==
    {Tokenize(text)[i].s : i \in {i \in 1..Len(Tokenize(text)) : Tokenize(text)[i].k = "id"}}

\* The names of the keys of an object that are identifiers
Names(obj) == {obj[i][1][1] : i \in {i \in 1..Len(obj) : IsIdentifier(obj[i][1])}}

\* The identifiers of the sides of the equation the engine evaluates
EquationIdentifiers(blueprint) ==
    IF isImplicit(blueprint)
    THEN Identifiers(Split(blueprint.equation, "=")[1])
         \cup Identifiers(Split(blueprint.equation, "=")[2])
    ELSE Identifiers(blueprint.equation)

\* x, y, the declared parameters and variables, the math library
DeclaredNames(blueprint) ==
    {"x", "y"} \cup Names(blueprint.parameters) \cup Names(blueprint.vars)
    \cup {mathKeys[i] : i \in 1..Len(mathKeys)}

\* C1: in both modes, the evaluation of a blueprint whose equation refers to
\* an identifier that is neither x, y, a declared parameter, a declared
\* variable nor a math-library name fails with the Equation Error, and no
\* series is returned (stated for blueprints whose steps is positive).
C1_UndeclaredIdentifierFails ==
    (/\ pc \in {"chart", "error"}
     /\ setup.steps >= 1
     /\ ~(EquationIdentifiers(setup) \subseteq DeclaredNames(setup)))
    => pc = "error"

\* The samples at the grid nodes for the current assignment
GridDx(blueprint) ==
    NumDiv(NumAdd(xMaxOf(blueprint), Neg(xMinOf(blueprint))), IntNum(gridSize))
GridDy(blueprint) ==
    NumDiv(NumAdd(yMaxOf(blueprint), Neg(yMinOf(blueprint))), IntNum(gridSize))
NodeValues ==
    GridValues(Calls(evalFn(setup, params), params,
                     GridNodes(xMinOf(setup), yMinOf(setup), GridDx(setup), GridDy(setup))))

\* Cell (i, j) has a corner whose sample is NaN, +Infinity or -Infinity
NonFiniteCorner(values, i, j) ==
    \E k \in {j * gridRows + i + 1, j * gridRows + i + 2,
              (j + 1) * gridRows + i + 2, (j + 1) * gridRows + i + 1} : ~IsFin(values[k])

\* C2: in implicit mode, a grid cell with a corner sample that is not finite
\* (NaN, +Infinity, -Infinity) is skipped: it contributes no contour point.
C2_NonFiniteCellSkipped ==
    (pc = "chart" /\ isImplicit(setup)) =>
        \A i, j \in 0..(gridSize - 1) :
            NonFiniteCorner(NodeValues, i, j) =>
                CellPoints(NodeValues, i, j, xMinOf(setup), yMinOf(setup),
                           GridDx(setup), GridDy(setup)) = <<>>

\* C3: in implicit mode with xMin <= xMax and yMin <= yMax, every point of
\* the contour series lies in [xMin, xMax] x [yMin, yMax].
C3_ContourWithinGrid ==
    (/\ pc = "chart"
     /\ isImplicit(setup)
     /\ LessEq(xMinOf(setup), xMaxOf(setup))
     /\ LessEq(yMinOf(setup), yMaxOf(setup)))
    => \A k \in 1..Len(chart.data.data) :
          /\ LessEq(xMinOf(setup), chart.data.data[k].x)
          /\ LessEq(chart.data.data[k].x, xMaxOf(setup))
          /\ LessEq(yMinOf(setup), chart.data.data[k].y)
          /\ LessEq(chart.data.data[k].y, yMaxOf(setup))

\* An explicit blueprint that evaluated, with steps >= 1 and finite
\* bounds xMin < xMax
SweptCurve ==
    /\ pc = "chart"
    /\ ~isImplicit(setup)
    /\ setup.steps >= 1
    /\ IsFin(xMinOf(setup)) /\ IsFin(xMaxOf(setup))
    /\ Less(xMinOf(setup), xMaxOf(setup))

LineKey(line) == ToLowerCase(Trim(SubSeq(line, 1, IndexOf(line, ":") - 1)))

RecognizedKeys ==
    {<<"title">>, <<"equation">>, <<"steps">>, <<"color">>, <<"params">>, <<"parameters">>,
     <<"vars">>, <<"variables">>, <<"axis">>}

\* No line of the text has a key the parser knows
NoRecognizableKeys(raw) ==
    \A i \in 1..Len(SplitLines(raw)) :
        Includes(SplitLines(raw)[i], ":") => LineKey(SplitLines(raw)[i]) \notin RecognizedKeys

IsObject(obj) == \A i \in 1..Len(obj) : Len(obj[i]) = 2 /\ Len(obj[i][1]) >= 1

IsBlueprint(b) ==
    /\ DOMAIN b = {"title", "equation", "steps", "color", "parameters", "vars", "axis"}
    /\ b.steps \in Int
    /\ IsObject(b.parameters) /\ IsObject(b.vars)
    /\ DOMAIN b.axis = {"x", "y"}
    /\ IsObject(b.axis.x) /\ IsObject(b.axis.y)

\* C5: parseBlueprint returns a blueprint for every text, and for a text
\* with no recognizable key the blueprint of the defaults: empty title, steps
\* 500, the orange rgb(255, 149, 0), no parameters, no variables, axis x and
\* y without title, min or max.
C5_ParseTotalDefaults ==
    pc = "parsed" =>
        /\ IsBlueprint(setup)
        /\ NoRecognizableKeys(rawData) =>
              /\ setup.title = <<>>
              /\ setup.steps = 500
              /\ setup.color = DefaultColor
              /\ setup.parameters = <<>>
              /\ setup.vars = <<>>
              /\ setup.axis.x = <<>> /\ setup.axis.y = <<>>

\* A parsed text that has colons but no recognizable key
C5_Witness ==
    /\ pc = "parsed"
    /\ Includes(rawData, ":")
    /\ NoRecognizableKeys(rawData)
    /\ setup = DefaultConfig

\* Each variable is an identifier that is no formal parameter, and refers to
\* no variable declared at or after it
WellOrderedVars(blueprint) ==
    /\ blueprint.vars # <<>>
    /\ \A i \in 1..Len(blueprint.vars) :
          /\ IsIdentifier(blueprint.vars[i][1])
          /\ blueprint.vars[i][1][1] \notin
                {"x"} \cup Names(blueprint.parameters) \cup {mathKeys[k] : k \in 1..Len(mathKeys)}
          /\ \A j \in i..Len(blueprint.vars) :
                blueprint.vars[j][1][1] \notin Identifiers(blueprint.vars[i][2])

\* The names and values the equation sees when each variable, in the order
\* declared, is bound to the value of its expression over the names before it
RECURSIVE VarBindings(_, _, _)
VarBindings(vs, names, values) ==
    IF vs = <<>> THEN [thrown |-> FALSE, names |-> names, values |-> values]
    ELSE LET parsed == ParseExpression(vs[1][2])
             r == Eval(parsed.e, [declared |-> {}, consts |-> <<>>,
                                  names |-> names, values |-> values])
         IN IF ~parsed.ok \/ r.thrown
            THEN [thrown |-> TRUE, names |-> names, values |-> values]
            ELSE VarBindings(Tail(vs), Append(names, vs[1][1][1]), Append(values, r.v))

\* The y of the equation at x over those bindings
ExpectedY(blueprint, ps, x) ==
    LET b == VarBindings(blueprint.vars,
                         <<"x">> \o [i \in 1..Len(ps) |-> ps[i][1][1]] \o mathKeys,
                         <<x>> \o ObjValues(ps) \o mathValues)
        parsed == ParseExpression(blueprint.equation)
        r == Eval(parsed.e, [declared |-> {}, consts |-> <<>>,
                             names |-> b.names, values |-> b.values])
    IN IF b.thrown \/ ~parsed.ok THEN Throw ELSE r

\* C6: variables are evaluated in the order declared: in an explicit
\* blueprint (steps >= 1) whose variables are identifiers other than the
\* parameters and refer only to variables declared before them, each variable
\* has the value of its expression over the variables before it, the equation
\* sees the value of every variable, and the evaluation fails only when one of
\* those expressions fails (stated for the series of an evaluation that
\* returned: a listener that threw leaves the series of an earlier one).
C6_VarsInDeclarationOrder ==
    (/\ pc \in {"chart", "error"}
     /\ ~thrown
     /\ ~isImplicit(setup)
     /\ setup.steps >= 1
     /\ \A i \in 1..Len(params) : IsIdentifier(params[i][1])
     /\ WellOrderedVars(setup))
    => IF pc = "error"
       THEN \E k \in 0..setup.steps :
               ExpectedY(setup, params,
                         CurveXs(setup.steps, xMinOf(setup), xMaxOf(setup))[k + 1][1]).thrown
       ELSE \A k \in 1..Len(chart.data.data) :
               /\ ~ExpectedY(setup, params, chart.data.data[k].x).thrown
               /\ chart.data.data[k].y = ExpectedY(setup, params, chart.data.data[k].x).v

\* Z: sqrt(R**2 + X**2), W: Z + 1 with R = 3, X = 4: `W - x` is 6 at x = 0
C6_Witness ==
    /\ pc = "chart"
    /\ WellOrderedVars(setup)
    /\ Len(setup.vars) = 2
    /\ "W" \in Identifiers(setup.equation)
    /\ "Z" \in Identifiers(setup.vars[2][2])
    /\ chart.data.data[1] = Point(IntNum(0), IntNum(6))

\* C8: the text of a blueprint chart is parsed exactly once; the blueprint
\* the slider listeners evaluate is that parsed blueprint; and after any
\* sequence of slider changes the series of the chart is what the engine
\* returns for that blueprint and the current assignment.
C8_ParsedOnceEngineReinvoked ==
    /\ parses <= 1
    /\ pc # "placeholder" => parses = 1 /\ setup = parseBlueprint(rawData)
    /\ (pc = "chart" /\ ~thrown) =>
          chart.data = generateChartConfig(setup, params).config.data

\* A slider was moved on a chart with derived variables, and the series is
\* no longer the one of the declared defaults
C8_Witness ==
    /\ pc = "chart"
    /\ parses = 1
    /\ setup.vars # <<>>
    /\ params # InitialParams(setup.parameters)
    /\ chart.data = generateChartConfig(setup, params).config.data
    /\ chart.data # generateChartConfig(setup, InitialParams(setup.parameters)).config.data

\* C9: after initialisation and after any slider changes the assignment has
\* exactly one entry per declared parameter, and each entry holds a number.
C9_AssignmentComplete ==
    pc = "chart" =>
        /\ ObjKeys(params) = ObjKeys(setup.parameters)
        /\ \A i \in 1..Len(params) : params[i][2].t \in {"num", "nan", "inf"}

\* The values of the root-level steps lines of a text
StepsLines(raw) ==
    SelectSeq(SplitLines(raw),
              LAMBDA l : /\ Trim(l) # <<>>
                         /\ ~IsSpace(Head(l))
                         /\ Head(l) # "#"
                         /\ Includes(l, ":")
                         /\ LineKey(l) = <<"steps">>)

StepsText(l) == Trim(SubSeq(l, IndexOf(l, ":") + 1, Len(l)))

IsPositiveInteger(text) ==
    /\ text # <<>>
    /\ \A i \in 1..Len(text) : IsDigit(text[i])
    /\ DigitsValue(text) >= 1

\* The steps the text asks for: its last steps key when that is a positive
\* integer, else 500
GivenSteps(raw) ==
    LET ls == StepsLines(raw)
    IN IF ls # <<>> /\ IsPositiveInteger(StepsText(ls[Len(ls)]))
       THEN DigitsValue(StepsText(ls[Len(ls)]))
       ELSE 500

\* C10: after parsing any text, steps is a positive integer: the value of
\* the steps key when that is a positive integer, and 500 when the key is
\* absent or its value is no positive number; never zero or negative.
C10_StepsPositive ==
    pc = "parsed" => setup.steps >= 1 /\ setup.steps = GivenSteps(rawData)

\* How many parentheses are open before position i of a text
ParenDepth(text, i) ==
    Cardinality({k \in 1..(i - 1) : text[k] = "("})
    - Cardinality({k \in 1..(i - 1) : text[k] = ")"})

\* The text has an "=" outside every pair of parentheses
HasTopLevelEquals(text) ==
    \E i \in 1..Len(text) : text[i] = "=" /\ ParenDepth(text, i) = 0

\* C11: a chart is drawn in implicit mode, as an unconnected scatter, exactly
\* when its equation has a top-level "=", and in explicit mode, as a
\* connected line, otherwise.
C11_ModeByTopLevelEquals ==
    pc = "chart" =>
        IF HasTopLevelEquals(setup.equation)
        THEN chart.type = "scatter" /\ ~chart.data.showLine
        ELSE chart.type = "line" /\ chart.data.showLine

\* The text before the first "=" of an equation, and the text after it
LeftOfEquals(equation) == SubSeq(equation, 1, IndexOf(equation, "=") - 1)

RightOfEquals(equation) == SubSeq(equation, IndexOf(equation, "=") + 1, Len(equation))

\* C12: in implicit mode the sampled function is the text before the first
\* "=" minus the whole text after it, later "=" included: no part of the
\* equation text is dropped.
C12_SplitAtFirstEquals ==
    (pc = "chart" /\ isImplicit(setup)) =>
        diffEquation(setup.equation) =
            <<"(">> \o LeftOfEquals(setup.equation) \o <<")", " ", "-", " ", "(">>
                \o RightOfEquals(setup.equation) \o <<")">>

\* The parser's state before the first line
ParseStart == [config |-> DefaultConfig, currentSection |-> ""]

\* The lines 1..n of a text
Prefix(raw, n) == SubSeq(SplitLines(raw), 1, n)

\* The section the parser is in after the given lines
SectionAfter(lines) == ParseLines(ParseStart, lines).currentSection

\* An unindented line with a colon that is neither blank nor a comment
IsHeaderLine(line) ==
    /\ Trim(line) # <<>>
    /\ Head(Trim(line)) # "#"
    /\ ~IsSpace(Head(line))
    /\ Includes(line, ":")

\* The section a key opens: root for every key that names no section
SectionOfKey(key) ==
    IF key \in {<<"params">>, <<"parameters">>} THEN "params"
    ELSE IF key \in {<<"vars">>, <<"variables">>} THEN "vars"
    ELSE IF key = <<"axis">> THEN "axis"
    ELSE ""

\* The section the last header line of the given lines opens
SectionOfLastHeader(lines) ==
    LET hs == {i \in 1..Len(lines) : IsHeaderLine(lines[i])}
    IN IF hs = {} THEN ""
       ELSE SectionOfKey(LineKey(lines[CHOOSE i \in hs : \A j \in hs : j <= i]))

\* C13: after any prefix of the lines of a text the current section is the
\* one opened by the last unindented line with a colon that is neither blank
\* nor a comment: params, vars or axis by its key, compared without case,
\* and root for any other key; blank, comment and indented lines never
\* change it.
C13_SectionFollowsLastHeader ==
    pc = "parsed" =>
        \A n \in 0..Len(SplitLines(rawData)) :
            SectionAfter(Prefix(rawData, n)) = SectionOfLastHeader(Prefix(rawData, n))

\* A parsed text with a section that stays open over an indented line, a
\* blank line and a line without colon, and is closed by a later root key
C13_Witness ==
    /\ pc = "parsed"
    /\ \E n \in 3..Len(SplitLines(rawData)) :
          /\ SectionAfter(Prefix(rawData, n)) = "vars"
          /\ SectionAfter(Prefix(rawData, n - 1)) = "vars"
          /\ SplitLines(rawData)[n] # <<>>
          /\ IsSpace(Head(SplitLines(rawData)[n]))
          /\ \E k \in 1..(n - 1) : SplitLines(rawData)[k] = <<>>
          /\ \E m \in (n + 1)..Len(SplitLines(rawData)) :
                SectionAfter(Prefix(rawData, m)) = ""

\* An indented line with a colon that is neither blank nor a comment
IsNestedLine(line) ==
    /\ Trim(line) # <<>>
    /\ Head(Trim(line)) # "#"
    /\ IsSpace(Head(line))
    /\ Includes(line, ":")

\* The name before the first colon of a line and the text after it, trimmed
NestedName(line) == Trim(SubSeq(line, 1, IndexOf(line, ":") - 1))

NestedText(line) == Trim(SubSeq(line, IndexOf(line, ":") + 1, Len(line)))

\* The blueprint under construction after the given lines
ConfigAfter(lines) == ParseLines(ParseStart, lines).config

\* C14: every indented line "name: rhs" of the vars section stores rhs, the
\* whole trimmed text after the first colon, as the expression of the
\* variable name, whatever the text of rhs is; no such line is read as an
\* object literal or discarded.
C14_VarsStoredVerbatim ==
    pc = "parsed" =>
        \A n \in 1..Len(SplitLines(rawData)) :
            (/\ IsNestedLine(SplitLines(rawData)[n])
             /\ SectionAfter(Prefix(rawData, n - 1)) = "vars") =>
                /\ HasKey(ConfigAfter(Prefix(rawData, n)).vars, NestedName(SplitLines(rawData)[n]))
                /\ ObjGet(ConfigAfter(Prefix(rawData, n)).vars, NestedName(SplitLines(rawData)[n]))
                     = NestedText(SplitLines(rawData)[n])

\* Position i of a text is outside every pair of double quotes
Unquoted(text, i) == Cardinality({k \in 1..(i - 1) : text[k] = "\""}) % 2 = 0

\* The pieces of a text between its occurrences of c outside quotes
RECURSIVE SplitTopLevel(_, _)
SplitTopLevel(text, c) ==
    LET cuts == {i \in 1..Len(text) : text[i] = c /\ Unquoted(text, i)}
        first == CHOOSE i \in cuts : \A j \in cuts : i <= j
    IN IF cuts = {} THEN <<text>>
       ELSE <<SubSeq(text, 1, first - 1)>>
                \o SplitTopLevel(SubSeq(text, first + 1, Len(text)), c)

IsQuoted(text) == Len(text) >= 2 /\ Head(text) = "\"" /\ text[Len(text)] = "\""

\* The value a "key: value" pair denotes: the text between the quotes of a
\* quoted string, the number of a numeric text
PairValue(text) ==
    IF IsQuoted(text) THEN Str(SubSeq(text, 2, Len(text) - 1))
    ELSE IF ~isNaN(Str(text)) THEN StringToNumber(text)
    ELSE Str(text)

\* The object of the "key: value" pairs between the top-level commas of the
\* text between the braces
RECURSIVE PairsFrom(_, _)
PairsFrom(props, pieces) ==
    LET kv == SplitTopLevel(Head(pieces), ":")
        key == Trim(kv[1])
        value == Trim(SubSeq(Head(pieces), Len(kv[1]) + 2, Len(Head(pieces))))
    IN IF pieces = <<>> THEN props
       ELSE IF key # <<>> /\ value # <<>>
       THEN PairsFrom(ObjSet(props, key, PairValue(value)), Tail(pieces))
       ELSE PairsFrom(props, Tail(pieces))

TopLevelPairs(group) == PairsFrom(EmptyObj, SplitTopLevel(group, ","))

\* C15: the object between the braces of a line "name: { ... }" of the
\* params section is split on its top-level commas only into "key: value"
\* pairs; a quoted string keeps its whole text, commas and colons included,
\* without the quotes, and a numeric text becomes that number.
C15_ParamsTopLevelPairs ==
    pc = "parsed" =>
        \A n \in 1..Len(SplitLines(rawData)) :
            (/\ IsNestedLine(SplitLines(rawData)[n])
             /\ SectionAfter(Prefix(rawData, n - 1)) = "params"
             /\ ObjMatches(NestedText(SplitLines(rawData)[n]))) =>
                ObjGet(ConfigAfter(Prefix(rawData, n)).parameters,
                       NestedName(SplitLines(rawData)[n]))
                    = TopLevelPairs(ObjMatchGroup(NestedText(SplitLines(rawData)[n])))

\* The text has a "{" with a "}" somewhere after it
HasBracePair(text) ==
    \E i \in 1..Len(text) : \E j \in (i + 1)..Len(text) : text[i] = "{" /\ text[j] = "}"

\* Line n of the text is an indented line of the params or axis section
\* whose object literal has no matching pair of braces
IsMalformedAt(raw, n) ==
    /\ IsNestedLine(SplitLines(raw)[n])
    /\ SectionAfter(Prefix(raw, n - 1)) \in {"params", "axis"}
    /\ ~HasBracePair(NestedText(SplitLines(raw)[n]))

\* The lines of a text without line n
WithoutLine(raw, n) ==
    SubSeq(SplitLines(raw), 1, n - 1) \o SubSeq(SplitLines(raw), n + 1, Len(SplitLines(raw)))

\* C16: an indented line of the params or axis section whose object literal
\* has no matching pair of braces changes nothing: the blueprint and the
\* section are after the line what they were before it, and the rest of the
\* text is parsed as if the line were not there.
C16_MalformedLiteralIgnored ==
    pc = "parsed" =>
        \A n \in 1..Len(SplitLines(rawData)) :
            IsMalformedAt(rawData, n) =>
                /\ ConfigAfter(Prefix(rawData, n)) = ConfigAfter(Prefix(rawData, n - 1))
                /\ SectionAfter(Prefix(rawData, n)) = SectionAfter(Prefix(rawData, n - 1))
                /\ setup = ConfigAfter(WithoutLine(rawData, n))

\* A parsed text with a malformed line in the params or axis section and a
\* well-formed line after it that defines a parameter or an axis entry
C16_Witness ==
    /\ pc = "parsed"
    /\ \E n \in 1..(Len(SplitLines(rawData)) - 1) :
          /\ IsMalformedAt(rawData, n)
          /\ setup # ConfigAfter(Prefix(rawData, n))
          /\ setup.vars = <<>>

\* The expressions of a blueprint: the sides of its equation and the
\* right-hand sides of its variables
Expressions(blueprint) ==
    (IF isImplicit(blueprint)
     THEN {Split(blueprint.equation, "=")[1], Split(blueprint.equation, "=")[2]}
     ELSE {blueprint.equation})
    \cup {blueprint.vars[i][2] : i \in 1..Len(blueprint.vars)}

\* An expression is invalid: a syntax error, or a name declared nowhere
IsInvalid(blueprint, text) ==
    \/ ~ParseExpression(text).ok
    \/ ~(Identifiers(text) \subseteq DeclaredNames(blueprint))

\* C17: when an expression of the blueprint, its equation or a variable, is
\* invalid, the evaluation raises the Equation Error and returns no series
\* at all: no chart is drawn from such a blueprint, and no partially filled
\* series is returned (stated for blueprints whose steps is positive).
C17_FailsAtomically ==
    (/\ pc \in {"chart", "error"}
     /\ setup.steps >= 1
     /\ \E text \in Expressions(setup) : IsInvalid(setup, text))
    => pc = "error" /\ chart = Null

\* C18: no evaluation and no slider change modifies the blueprint: once
\* parsed, its title, equation, steps, color, variables and their order,
\* parameters and axis stay what they were right after parsing; only the
\* parameter assignment, and the chart drawn from it, vary.
C18_BlueprintUnmodified ==
    [][pc # "placeholder" => setup' = setup /\ setup = parseBlueprint(rawData)]_vars

\* A slider of an implicit chart was moved: the assignment is no longer the
\* one of the declared values, the blueprint is the parsed one
C18_Witness ==
    /\ pc = "chart"
    /\ isImplicit(setup)
    /\ params # InitialParams(setup.parameters)
    /\ setup = parseBlueprint(rawData)

\* A bound of an axis: the number given for it, else the default
ResolvedBound(axisObj, key, default) ==
    IF HasKey(axisObj, <<key>>) /\ ObjGet(axisObj, <<key>>).t \in {"num", "inf"}
    THEN ObjGet(axisObj, <<key>>)
    ELSE default

\* Other y ranges a blueprint could declare
OtherYAxes ==
    {EmptyObj,
     <<<<<<"min">>, IntNum(0)>>, <<<<"max">>, IntNum(7)>>>>,
     <<<<<<"min">>, IntNum(-3)>>>>}

\* C19: the x range of the chart is from axis.x.min if given, else -10, to
\* axis.x.max if given, else 10, and likewise the y range; a given bound of 0
\* is used as 0; this holds in both modes, and in explicit mode the points
\* of the series are the same whatever the y range is.
C19_AxisBoundsResolved ==
    pc = "chart" =>
        /\ chart.options.x.min = ResolvedBound(setup.axis.x, "min", IntNum(-10))
        /\ chart.options.x.max = ResolvedBound(setup.axis.x, "max", IntNum(10))
        /\ chart.options.y.min = ResolvedBound(setup.axis.y, "min", IntNum(-10))
        /\ chart.options.y.max = ResolvedBound(setup.axis.y, "max", IntNum(10))
        /\ (~isImplicit(setup) /\ ~thrown) =>
              \A yAxis \in OtherYAxes :
                  generateChartConfig([setup EXCEPT !.axis.y = yAxis], params).config.data.data
                      = chart.data.data

\* An explicit chart whose x axis is declared from 0 and whose y axis is
\* declared as well: its x range starts at 0, its first point is at x = 0
C19_Witness ==
    /\ pc = "chart"
    /\ ~isImplicit(setup)
    /\ ObjGet(setup.axis.x, <<"min">>) = IntNum(0)
    /\ HasKey(setup.axis.y, <<"min">>)
    /\ chart.options.x.min = IntNum(0)
    /\ chart.options.y.max = IntNum(1)
    /\ chart.data.data[1].x = IntNum(0)

\* The points an evaluation samples: the nodes of the grid, or the x of the
\* sweep
SamplePoints(blueprint) ==
    IF isImplicit(blueprint)
    THEN GridNodes(xMinOf(blueprint), yMinOf(blueprint), GridDx(blueprint), GridDy(blueprint))
    ELSE CurveXs(blueprint.steps, xMinOf(blueprint), xMaxOf(blueprint))

\* The evaluator of the blueprint with the variable `name` returned in
\* place of the equation
VarFn(blueprint, ps, name) ==
    NewFunction((IF isImplicit(blueprint) THEN << <<"x">>, <<"y">> >> ELSE << <<"x">> >>)
                    \o ObjKeys(ps) \o Words(mathKeys),
                varLogic(blueprint.vars), name, FALSE)

\* The value the variable has at each sample point of an evaluation
VarValues(blueprint, ps, name) ==
    Calls(VarFn(blueprint, ps, name), ps, SamplePoints(blueprint))

\* C20: within one evaluation every sample point, every x of the sweep and
\* every node of the grid, sees the same value of each variable: a variable
\* is computed from the math library, the parameters and earlier variables,
\* and its value does not depend on x or y.
C20_VarsSameAtEverySample ==
    (pc = "chart" /\ ~thrown /\ setup.steps >= 1) =>
        \A i \in 1..Len(setup.vars) :
            \A p, q \in 1..Len(SamplePoints(setup)) :
                VarValues(setup, params, setup.vars[i][1])[p].v
                    = VarValues(setup, params, setup.vars[i][1])[q].v

\* The names an expression text calls: each identifier followed by "("
CalledNames(text) ==
    {Tokenize(text)[i].s :
        i \in {i \in 1..(Len(Tokenize(text)) - 1) :
                  Tokenize(text)[i].k = "id" /\ IsOp(Tokenize(text)[i + 1], "(")}}

MathFunctionNames == {mathKeys[i] : i \in 1..Len(mathKeys)} \ {"PI", "E"}

\* The sample coordinates of the mode: x, and y in implicit mode
CoordinateNames(blueprint) == IF isImplicit(blueprint) THEN {"x", "y"} ELSE {"x"}

\* The names an expression may use when the names of `known` variables are
\* declared before it
NamesInScope(blueprint, known) ==
    CoordinateNames(blueprint) \cup Names(blueprint.parameters)
    \cup {mathKeys[i] : i \in 1..Len(mathKeys)}
    \cup {blueprint.vars[j][1][1] : j \in 1..known}

\* A valid expression text: it parses, uses names in scope only, and calls
\* functions of the math library only, none of them redeclared
IsValidExpression(blueprint, text, known) ==
    /\ ParseExpression(text).ok
    /\ Identifiers(text) \subseteq NamesInScope(blueprint, known)
    /\ CalledNames(text) \subseteq MathFunctionNames
    /\ CalledNames(text) \cap (Names(blueprint.parameters)
                               \cup {blueprint.vars[j][1][1] : j \in 1..known}) = {}

\* A blueprint all of whose expressions are valid: parameters and variables
\* are distinct identifiers, each variable uses earlier variables only
IsValidBlueprint(blueprint) ==
    /\ \A i \in 1..Len(blueprint.parameters) : IsIdentifier(blueprint.parameters[i][1])
    /\ \A i \in 1..Len(blueprint.vars) :
          /\ IsIdentifier(blueprint.vars[i][1])
          /\ blueprint.vars[i][1][1] \notin
                CoordinateNames(blueprint) \cup Names(blueprint.parameters)
                \cup {mathKeys[k] : k \in 1..Len(mathKeys)}
          /\ IsValidExpression(blueprint, blueprint.vars[i][2], i - 1)
    /\ \A text \in Expressions(blueprint) \ {blueprint.vars[i][2] : i \in 1..Len(blueprint.vars)} :
          IsValidExpression(blueprint, text, Len(blueprint.vars))

\* The value of the equation at some sample point of the evaluation with
\* the current assignment is NaN or infinite
HasNonFiniteSample ==
    \E k \in 1..Len(SamplePoints(setup)) :
        LET r == CallFunction(evalFn(setup, params),
                              SamplePoints(setup)[k] \o ObjValues(params) \o mathValues)
        IN ~r.thrown /\ ToNumber(r.v).t \in {"nan", "inf"}

\* C21: a result that is NaN or infinite is no error: when the valid
\* expressions of a blueprint give such a value at some or all sample points,
\* the evaluation completes without the Equation Error and returns its
\* series, in both modes.
C21_NonFiniteIsNoError ==
    (/\ pc \in {"chart", "error"}
     /\ IsValidBlueprint(setup)
     /\ HasNonFiniteSample)
    => /\ pc = "chart"
       /\ ~thrown
       /\ chart.data = generateChartConfig(setup, params).config.data
       /\ ~isImplicit(setup) => Len(chart.data.data) = Len(SamplePoints(setup))

\* An explicit chart of a variable that is infinite: every point of the
\* series has the y +Infinity
C21_Witness ==
    /\ pc = "chart"
    /\ IsValidBlueprint(setup)
    /\ setup.vars # <<>>
    /\ ~isImplicit(setup)
    /\ Len(chart.data.data) = 3
    /\ \A k \in 1..3 : chart.data.data[k].y = PosInf

\* Some variable refers to itself or to a variable declared after it (every
\* cycle of variables has such a reference)
HasForwardReference(blueprint) ==
    \E i \in 1..Len(blueprint.vars) : \E j \in i..Len(blueprint.vars) :
        /\ IsIdentifier(blueprint.vars[j][1])
        /\ blueprint.vars[j][1][1] \in Identifiers(blueprint.vars[i][2])

\* C22: a variable that refers to a variable declared later, to itself, or
\* to a cycle of variables never gets a value: the evaluation fails with the
\* Equation Error and no chart is drawn, in explicit mode (steps >= 1) and in
\* implicit mode.
C22_ForwardReferenceFails ==
    (/\ pc \in {"chart", "error"}
     /\ isImplicit(setup) \/ setup.steps >= 1
     /\ HasForwardReference(setup))
    => pc = "error" /\ chart = Null

\* An implicit blueprint whose expressions all parse and use declared names
\* only, with a variable that refers to a later one: its evaluation failed
C22_Witness ==
    /\ pc = "error"
    /\ isImplicit(setup)
    /\ Len(setup.vars) = 2
    /\ HasForwardReference(setup)
    /\ \A text \in Expressions(setup) : ~IsInvalid(setup, text)

\* The positions of the header lines of a text, in order
HeaderPositions(lines) ==
    SelectSeq([i \in 1..Len(lines) |-> i], LAMBDA i : IsHeaderLine(lines[i]))

\* The lines before the first header line
Preamble(lines) ==
    IF HeaderPositions(lines) = <<>> THEN lines
    ELSE SubSeq(lines, 1, HeaderPositions(lines)[1] - 1)

\* Block k of a text: its k-th header line, a section header or a root key,
\* with the lines that follow it up to the next header line
Block(lines, k) ==
    SubSeq(lines, HeaderPositions(lines)[k],
           IF k < Len(HeaderPositions(lines)) THEN HeaderPositions(lines)[k + 1] - 1
           ELSE Len(lines))

BlockOrders(n) == {f \in [1..n -> 1..n] : \A i, j \in 1..n : f[i] = f[j] => i = j}

\* The text with its blocks in the order f
Permuted(lines, f) ==
    Preamble(lines) \o Concat([k \in 1..Len(HeaderPositions(lines)) |-> Block(lines, f[k])])

\* The section or root key a header line stands for
HeaderOf(line) ==
    IF SectionOfKey(LineKey(line)) # "" THEN <<SectionOfKey(LineKey(line))>> ELSE LineKey(line)

\* Every section and root key occurs once, and every name once in its block
OccursOnce(lines) ==
    /\ \A i, j \in 1..Len(HeaderPositions(lines)) :
          i # j => HeaderOf(Block(lines, i)[1]) # HeaderOf(Block(lines, j)[1])
    /\ \A k \in 1..Len(HeaderPositions(lines)) :
          \A i, j \in 2..Len(Block(lines, k)) :
              (/\ i # j
               /\ IsNestedLine(Block(lines, k)[i])
               /\ IsNestedLine(Block(lines, k)[j]))
              => NestedName(Block(lines, k)[i]) # NestedName(Block(lines, k)[j])

\* C23: the blueprint does not depend on the order of the sections and root
\* keys of the text: when every key and name occurs once, the text with its
\* blocks in any other order, each block keeping its lines, parses to the
\* same title, equation, steps, color, parameters, variables and axis.
C23_SectionOrderIrrelevant ==
    (pc = "parsed" /\ OccursOnce(SplitLines(rawData))) =>
        \A f \in BlockOrders(Len(HeaderPositions(SplitLines(rawData)))) :
            parseBlueprint(JoinLines(Permuted(SplitLines(rawData), f))) = setup

\* A parsed text with an equation, steps and the three sections, all of them
\* filled: its parameters, variables and axis are those of the text with the
\* sections in reverse order
C23_Witness ==
    /\ pc = "parsed"
    /\ OccursOnce(SplitLines(rawData))
    /\ Len(HeaderPositions(SplitLines(rawData))) = 5
    /\ Len(setup.parameters) = 2 /\ Len(setup.vars) = 2
    /\ setup.axis.x # <<>> /\ setup.axis.y # <<>>
    /\ parseBlueprint(JoinLines(Permuted(SplitLines(rawData), [k \in 1..5 |-> 6 - k]))) = setup

\* C24: when the re-evaluation of a slider change fails with the Equation
\* Error the chart keeps its data, the series of the last evaluation that
\* succeeded; a later slider change whose evaluation succeeds replaces the
\* series by the one of the assignment it made.
C24_FailedUpdateKeepsSeries ==
    [][pc = "chart" =>
          IF generateChartConfig(setup, params').thrown
          THEN thrown' /\ chart' = chart
          ELSE ~thrown' /\ chart'.data = generateChartConfig(setup, params').config.data
                        /\ chart'.options = chart.options]_vars

\* Two slider changes failed in a row, the later one of another parameter:
\* the chart still shows the series of the declared values
C24_Witness ==
    /\ pc = "chart"
    /\ thrown
    /\ \E i \in 1..Len(params) :
          /\ params[i][1] = <<"R">>
          /\ params[i][2] # InitialParams(setup.parameters)[i][2]
    /\ chart.data.data # <<>>
    /\ chart.data = generateChartConfig(setup, InitialParams(setup.parameters)).config.data

\* A step a container can take when it is the only one of its page: the
\* callback that renders it, or an input of one of its own sliders
AloneStep(c, after) ==
    \/ c.pc = "placeholder" /\ after = ContainerRendered(c)
    \/ /\ c.pc = "chart"
       /\ \E i \in 1..Len(c.setup.parameters) :
             \E text \in SliderTexts(c.setup.parameters[i][2]) :
                 after = ContainerInput(c, c.setup.parameters[i][1], text)

\* C25: when the renderings and the slider changes of the charts of a page
\* are interleaved in any order, every step changes one chart only, in the
\* way that chart would change when run alone, and leaves the blueprint,
\* the assignment and the series of every other chart as they were
C25_ChartsDoNotInterfere ==
    [][\E id \in Containers :
          /\ AloneStep(charts[id], charts'[id])
          /\ \A d \in Containers \ {id} : charts'[d] = charts[d]]_vars

\* Two charts of the same blueprint text, hence with the same parameter
\* names, after slider changes in both: the assignments and the series differ
C25_Witness ==
    /\ charts # <<>>
    /\ charts["plot-1"].rawData = charts["plot-2"].rawData
    /\ charts["plot-1"].pc = "chart" /\ charts["plot-2"].pc = "chart"
    /\ charts["plot-1"].params # InitialParams(charts["plot-1"].setup.parameters)
    /\ charts["plot-2"].params # InitialParams(charts["plot-2"].setup.parameters)
    /\ charts["plot-1"].params # charts["plot-2"].params
    /\ charts["plot-1"].chart.data # charts["plot-2"].chart.data

\* The corner samples at the two ends of the edges of a cell, in the order
\* the loop body visits them: bottom, right, top, left
EdgeEnds == << <<1, 2>>, <<2, 3>>, <<3, 4>>, <<4, 1>> >>

\* A finite sample greater than zero
IsAbove(v) == v.t = "num" /\ v.n > 0

Crossed(v, e) == IsAbove(v[EdgeEnds[e][1]]) # IsAbove(v[EdgeEnds[e][2]])

\* The edges of a cell whose ends differ in sign, in the order of the loop body
RECURSIVE CrossedFrom(_, _)
CrossedFrom(v, e) ==
    IF e > 4 THEN <<>>
    ELSE (IF Crossed(v, e) THEN <<e>> ELSE <<>>) \o CrossedFrom(v, e + 1)

Between(a, v, b) == LessEq(a, v) /\ LessEq(v, b)

\* Point p lies on edge e of the cell [xL, xR] x [yB, yT]
OnEdge(p, e, xL, xR, yB, yT) ==
    CASE e = 1 -> p.y = yB /\ Between(xL, p.x, xR)
      [] e = 2 -> p.x = xR /\ Between(yB, p.y, yT)
      [] e = 3 -> p.y = yT /\ Between(xL, p.x, xR)
      [] e = 4 -> p.x = xL /\ Between(yB, p.y, yT)

AllFinite(v) == \A k \in 1..4 : IsFin(v[k])

\* C26: for a cell with four finite corner samples, bit k of the sign code
\* is set exactly when corner k is greater than zero (a sample of exactly 0
\* is not); a cell with code 0 or 15 pushes no point; any other cell pushes,
\* in the order bottom, right, top, left, one point on each edge whose ends
\* differ in sign and nothing else, hence at most 4 points
C26_OnePointPerCrossedEdge ==
    (call # Null /\ call.done /\ AllFinite(call.v)) =>
        LET code == configCode(call.v[1], call.v[2], call.v[3], call.v[4])
            crossed == CrossedFrom(call.v, 1)
        IN /\ \A k \in 1..4 : ((code \div (2 ^ (k - 1))) % 2 = 1) <=> IsAbove(call.v[k])
           /\ code \in {0, 15} => call.points = <<>>
           /\ code \notin {0, 15} =>
                 /\ Len(call.points) = Len(crossed)
                 /\ \A n \in 1..Len(crossed) :
                       OnEdge(call.points[n], crossed[n], call.xL, NumAdd(call.xL, call.dx),
                              call.yB, NumAdd(call.yB, call.dy))
           /\ Len(call.points) <= 4

\* A cell with finite corners, one of them exactly 0, whose four edges all
\* change sign: it pushed four points
C26_Witness ==
    /\ call # Null /\ call.done /\ AllFinite(call.v)
    /\ \E k \in 1..4 : call.v[k] = IntNum(0)
    /\ Len(call.points) = 4

\* The two samples are of different sign class: one > 0, the other <= 0
SignClassesDiffer(v1, v2) == IsAbove(v1) # IsAbove(v2)

\* C27: for finite v1, v2 of different sign class the result of
\* getInterp(p1, p2, v1, v2) lies between p1 and p2 inclusive
C27_InterpBetweenEnds ==
    (/\ call # Null /\ call.fn = "getInterp" /\ call.done
     /\ IsFin(call.v1) /\ IsFin(call.v2) /\ SignClassesDiffer(call.v1, call.v2)) =>
        \/ Between(call.p1, call.result, call.p2)
        \/ Between(call.p2, call.result, call.p1)

\* The corners of the cell are neither all above zero nor all not above zero
MixedSigns(v) == (\E k \in 1..4 : IsAbove(v[k])) /\ (\E k \in 1..4 : ~IsAbove(v[k]))

\* C28: a cell with four finite corner samples of mixed signs pushes exactly
\* 2 or exactly 4 points, and every other cell pushes none
C28_EvenPointsPerCell ==
    (call # Null /\ call.fn = "cell" /\ call.done) =>
        IF AllFinite(call.v) /\ MixedSigns(call.v)
        THEN Len(call.points) \in {2, 4}
        ELSE Len(call.points) = 0

\* Cell c of the loops, c = j * gridSize + i + 1: its column, its row and
\* the indices of its corner samples v0, v1, v2, v3 in values
CellI(c) == (c - 1) % gridSize
CellJ(c) == (c - 1) \div gridSize
CellNodes(c) ==
    <<CellJ(c) * gridRows + CellI(c) + 1, CellJ(c) * gridRows + CellI(c) + 2,
      (CellJ(c) + 1) * gridRows + CellI(c) + 2, (CellJ(c) + 1) * gridRows + CellI(c) + 1>>
Corners(values, c) == [k \in 1..4 |-> values[CellNodes(c)[k]]]

\* Edge k of cell c as the pair of grid nodes it joins
CellEdge(c, k) == {CellNodes(c)[EdgeEnds[k][1]], CellNodes(c)[EdgeEnds[k][2]]}
GridEdges == {CellEdge(c, k) : c \in 1..(gridSize * gridSize), k \in 1..4}
\* The cells an edge belongs to: two for an interior edge, one on the boundary
CellsAt(e) == {c \in 1..(gridSize * gridSize) : \E k \in 1..4 : CellEdge(c, k) = e}
EdgeIn(c, e) == CHOOSE k \in 1..4 : CellEdge(c, k) = e

PointsOfCell(values, c) ==
    CellPoints(values, CellI(c), CellJ(c), xMinOf(setup), yMinOf(setup),
               GridDx(setup), GridDy(setup))

\* How many points the cells before cell c pushed
RECURSIVE PushedBefore(_, _)
PushedBefore(values, c) ==
    IF c = 1 THEN 0
    ELSE PushedBefore(values, c - 1) + Len(PointsOfCell(values, c - 1))

\* The place in the series of the point cell c pushes for its edge k
PlaceOf(values, c, k) ==
    PushedBefore(values, c) + Cardinality({h \in 1..k : Crossed(Corners(values, c), h)})

PointOnCellEdge(p, c, k) ==
    OnEdge(p, k,
           NumAdd(xMinOf(setup), NumMul(IntNum(CellI(c)), GridDx(setup))),
           NumAdd(xMinOf(setup), NumMul(IntNum(CellI(c) + 1), GridDx(setup))),
           NumAdd(yMinOf(setup), NumMul(IntNum(CellJ(c)), GridDy(setup))),
           NumAdd(yMinOf(setup), NumMul(IntNum(CellJ(c) + 1), GridDy(setup))))

\* The places in the series that hold a point pushed for edge e
PlacesFor(values, e) == {PlaceOf(values, c, EdgeIn(c, e)) : c \in CellsAt(e)}

\* An edge whose ends differ in sign and whose cells have finite corners only
CrossedFiniteEdge(values, e) ==
    /\ \A c \in CellsAt(e) : AllFinite(Corners(values, c))
    /\ \E c \in CellsAt(e) : Crossed(Corners(values, c), EdgeIn(c, e))

\* C29: the series is the points of the cells one after the other, with no
\* point removed; for every edge whose ends differ in sign and whose cells
\* have four finite corners each, every cell of the edge pushed one point
\* for it, so the series holds two points for an interior edge, at different
\* places, and one for an edge on the boundary of the grid
C29_EachCellPushesItsEdgePoint ==
    (pc = "chart" /\ ~thrown /\ isImplicit(setup)) =>
        /\ Len(chart.data.data) = PushedBefore(NodeValues, gridSize * gridSize + 1)
        /\ \A e \in GridEdges :
              CrossedFiniteEdge(NodeValues, e) =>
                 /\ \A c \in CellsAt(e) :
                       /\ PlaceOf(NodeValues, c, EdgeIn(c, e)) \in 1..Len(chart.data.data)
                       /\ PointOnCellEdge(chart.data.data[PlaceOf(NodeValues, c, EdgeIn(c, e))],
                                          c, EdgeIn(c, e))
                 /\ Cardinality(PlacesFor(NodeValues, e)) = Cardinality(CellsAt(e))
                 /\ Cardinality(CellsAt(e)) \in {1, 2}

\* A contour through an interior edge and through a boundary edge: the
\* series holds the crossing point of the interior edge twice
C29_Witness ==
    /\ pc = "chart" /\ ~thrown /\ isImplicit(setup)
    /\ \E e \in GridEdges :
          /\ CrossedFiniteEdge(NodeValues, e)
          /\ Cardinality(CellsAt(e)) = 2
          /\ \E m, n \in PlacesFor(NodeValues, e) :
                m # n /\ chart.data.data[m] = chart.data.data[n]
    /\ \E e \in GridEdges : CrossedFiniteEdge(NodeValues, e) /\ Cardinality(CellsAt(e)) = 1

\* The names of obj that are names of the math library
MathNamed(obj) ==
    {i \in 1..Len(obj) : \E k \in 1..Len(mathKeys) : obj[i][1] = <<mathKeys[k]>>}

\* obj without its entries under a math-library name
WithoutMathNames(obj) == SelectSeq(obj, LAMBDA pair : \A k \in 1..Len(mathKeys) : pair[1] # <<mathKeys[k]>>)

\* C30: a parameter declared under the name of a math-library function or
\* constant is parsed like any other and gets its slider, and the evaluation
\* gives what it gives for the blueprint without that parameter, whatever
\* the value of the slider: the same series, or the same failure
C30_MathNameDenotesLibrary ==
    (/\ pc \in {"chart", "error"}
     /\ ~thrown
     /\ (isImplicit(setup) \/ setup.steps >= 1)
     /\ MathNamed(parseBlueprint(rawData).parameters) # {}) =>
        /\ setup.parameters = parseBlueprint(rawData).parameters
        /\ \A i \in MathNamed(setup.parameters) : HasKey(params, setup.parameters[i][1])
        /\ LET alone == generateChartConfig(
                            [setup EXCEPT !.parameters = WithoutMathNames(@)],
                            WithoutMathNames(params))
           IN IF pc = "error" THEN alone.thrown
              ELSE ~alone.thrown /\ chart.data = alone.config.data

\* The chart of abs(x) * R with a slider called abs, after that slider was
\* moved: the series still holds |x| * R
C30_Witness ==
    /\ pc = "chart" /\ ~thrown /\ ~isImplicit(setup)
    /\ HasKey(params, <<"abs">>)
    /\ ObjGet(params, <<"abs">>) # ObjGet(InitialParams(setup.parameters), <<"abs">>)
    /\ Len(chart.data.data) = 3
    /\ chart.data.data[1] = Point(IntNum(-10), NumMul(IntNum(10), ObjGet(params, <<"R">>)))

====
